---- MODULE Spec2Model ----
(***************************************************************************)
(* State-machine model of the sliding-puzzle solver                        *)
(* (private/reference/solver.py), of the Board model, the game engine      *)
(* (GamePlay.move), the board generator and the solver test harness.       *)
(*                                                                         *)
(* Cells are numbered row-major from 0, as in the solver's flat arrays.    *)
(* Python lists indexed from 0 are functions on 0..k-1.                    *)
(***************************************************************************)
EXTENDS Integers, Sequences, FiniteSets, TLC

\* ------------------------------------------------------------------ bounds
\* Largest board size explored.
MaxN == 4
\* Stand-in for GameGenerator.scramble's num_shuffles (size * size * 100).
MaxShuffles == 7
\* The same stand-in when the generator runs alone (no solver session follows):
\* long enough for a scramble to end on the solved board again.
MaxLongShuffles == 12

\* Number of legal moves explored from a 4x4 start board when every board
\* of a size is enumerated (2x2 and 3x3 are enumerated without a bound).
MaxReachDepth == 6
\* Value at which the move counter stops counting while hints are applied in
\* a loop (the loop itself is not bounded).
MaxHintMoves == 3
\* Number of swaps made on a _B whose snapshots are compared, and number of
\* snapshots taken of it.
MaxSnapSwaps == 4
MaxSnaps == 2
\* Number of GamePlay.move / move_tile calls made on one game, and the
\* largest absolute value of a move_tile argument.
MaxPlayCalls == 4
MaxPlayArg == 4

Sizes == 2..MaxN

\* ------------------------------------------------------------ Direction
UP == "up"
DOWN == "down"
LEFT == "left"
RIGHT == "right"
Direction == {UP, DOWN, LEFT, RIGHT}

\* Python's None
None == "None"

\* -------------------------------------------------------------- helpers
Cells(n) == 0..(n * n - 1)
RowOf(i, n) == i \div n
ColOf(i, n) == i % n
Min(a, b) == IF a < b THEN a ELSE b
Max(a, b) == IF a < b THEN b ELSE a
\* Python (a < b) - (a > b)
Sign(a, b) == IF a < b THEN 1 ELSE IF a > b THEN -1 ELSE 0

\* ---------------------------------------------------------------- Board
\* Board(size, tiles, blank_pos): tiles[r][c], blank_pos = <<r, c>>.
MkBoard(size, tiles, blank_pos) ==
    [size |-> size, tiles |-> tiles, blank_pos |-> blank_pos]

\* A flat Python list of length k: a function on 0..k-1.
FlatLen(flat) == Cardinality(DOMAIN flat)

\* The last index of 0 in row r of flat (enumerate overwrites), or -1.
RECURSIVE LastZeroCol(_, _, _, _)
LastZeroCol(flat, size, r, c) ==
    IF c < 0 THEN -1
    ELSE IF flat[r * size + c] = 0 THEN c
    ELSE LastZeroCol(flat, size, r, c - 1)

\* blank_pos after scanning rows 0..r of flat: the last zero seen, (0,0) if none.
RECURSIVE ScanBlank(_, _, _)
ScanBlank(flat, size, r) ==
    IF r < 0 THEN <<0, 0>>
    ELSE LET c == LastZeroCol(flat, size, r, size - 1)
         IN IF c >= 0 THEN <<r, c>> ELSE ScanBlank(flat, size, r - 1)

\* A from_flat that fills the rows column by column.
from_flat_transposed(size, flat) ==
    IF FlatLen(flat) # size * size THEN "ValueError"
    ELSE MkBoard(size,
                 [r \in 0..(size - 1) |->
                    [c \in 0..(size - 1) |-> flat[c * size + r]]],
                 ScanBlank(flat, size, size - 1))

\* Board.from_flat: "ValueError" when the length is wrong.
from_flat(size, flat) ==
    IF FlatLen(flat) # size * size THEN "ValueError"
    ELSE MkBoard(size,
                 [r \in 0..(size - 1) |->
                    [c \in 0..(size - 1) |-> flat[r * size + c]]],
                 ScanBlank(flat, size, size - 1))

\* Row-major flattening of a board's tiles.
Flatten(b) == [i \in Cells(b.size) |-> b.tiles[RowOf(i, b.size)][ColOf(i, b.size)]]

\* Board.is_solved: scan in row-major order; the last cell decides.
RECURSIVE is_solved_from(_, _, _)
is_solved_from(b, i, expected) ==
    LET r == RowOf(i, b.size)
        c == ColOf(i, b.size)
    IN IF r = b.size - 1 /\ c = b.size - 1 THEN b.tiles[r][c] = 0
       ELSE IF b.tiles[r][c] # expected THEN FALSE
       ELSE is_solved_from(b, i + 1, expected + 1)

\* An is_solved that looks at the last cell only.
is_solved_blank_only(b) == b.tiles[b.size - 1][b.size - 1] = 0

is_solved(b) == is_solved_from(b, 0, 1)

\* ------------------------------------------------------- GameGenerator
\* GameGenerator.solved
solved(size) ==
    MkBoard(size,
            [r \in 0..(size - 1) |->
               [c \in 0..(size - 1) |->
                  IF r = size - 1 /\ c = size - 1 THEN 0 ELSE r * size + c + 1]],
            <<size - 1, size - 1>>)

\* GameGenerator._get_neighbors, in the code's order (up, down, left, right).
NbOffsets == << <<-1, 0>>, <<1, 0>>, <<0, -1>>, <<0, 1>> >>
InGrid(r, c, size) == 0 <= r /\ r < size /\ 0 <= c /\ c < size
get_neighbors(b) ==
    LET br == b.blank_pos[1]
        bc == b.blank_pos[2]
        cand == [k \in 1..4 |-> <<br + NbOffsets[k][1], bc + NbOffsets[k][2]>>]
    IN SelectSeq(cand, LAMBDA t : InGrid(t[1], t[2], b.size))

\* A list index as Python reads it: a negative index counts from the end.
\* PyValid: the index raises no IndexError on a list of n entries.
PyIndex(i, n) == IF i < 0 THEN i + n ELSE i
PyValid(i, n) == -n <= i /\ i < n

\* GameGenerator._swap / GamePlay._swap: exchange blank and target cell;
\* blank_pos becomes the target as given.
swap(b, target) ==
    LET br == PyIndex(b.blank_pos[1], b.size)
        bc == PyIndex(b.blank_pos[2], b.size)
        tr == PyIndex(target[1], b.size)
        tc == PyIndex(target[2], b.size)
        vb == b.tiles[br][bc]
        vt == b.tiles[tr][tc]
        t1 == [b.tiles EXCEPT ![br] = [@ EXCEPT ![bc] = vt]]
        t2 == [t1 EXCEPT ![tr] = [@ EXCEPT ![tc] = vb]]
    IN MkBoard(b.size, t2, <<target[1], target[2]>>)

\* ------------------------------------------------------------ GamePlay
\* An offsets table that reads the direction as the blank's own movement.
MoveOffsetOfBlank(d) ==
    CASE d = UP -> <<-1, 0>>
      [] d = DOWN -> <<1, 0>>
      [] d = LEFT -> <<0, -1>>
      [] d = RIGHT -> <<0, 1>>

\* GamePlay.move's offsets table: the cell of the tile that slides.
MoveOffset(d) ==
    CASE d = UP -> <<1, 0>>
      [] d = DOWN -> <<-1, 0>>
      [] d = LEFT -> <<0, 1>>
      [] d = RIGHT -> <<0, -1>>

\* GamePlay.move on game = [board, moves]: returns [ok, game].
GamePlayMove(game, d) ==
    LET b == game.board
        tr == b.blank_pos[1] + MoveOffset(d)[1]
        tc == b.blank_pos[2] + MoveOffset(d)[2]
    IN IF ~InGrid(tr, tc, b.size)
       THEN [ok |-> FALSE, game |-> game]
       ELSE [ok |-> TRUE,
             game |-> [board |-> swap(b, <<tr, tc>>), moves |-> game.moves + 1]]

\* -------------------------------------------------- Solvability oracle
\* bisect.bisect_left(a, x) on a sorted list a (binary search, lo/hi 0-based).
RECURSIVE bisect_left_from(_, _, _, _)
bisect_left_from(a, x, lo, hi) ==
    IF lo < hi
    THEN LET mid == (lo + hi) \div 2
         IN IF a[mid + 1] < x THEN bisect_left_from(a, x, mid + 1, hi)
            ELSE bisect_left_from(a, x, lo, mid)
    ELSE lo

bisect_left(a, x) == bisect_left_from(a, x, 0, Len(a))

\* bisect.bisect_right(a, x)
RECURSIVE bisect_right_from(_, _, _, _)
bisect_right_from(a, x, lo, hi) ==
    IF lo < hi
    THEN LET mid == (lo + hi) \div 2
         IN IF x < a[mid + 1] THEN bisect_right_from(a, x, lo, mid)
            ELSE bisect_right_from(a, x, mid + 1, hi)
    ELSE lo

\* bisect.insort(a, x): insert x after any entries equal to it.
insort(a, x) ==
    LET k == bisect_right_from(a, x, 0, Len(a))
    IN SubSeq(a, 1, k) \o <<x>> \o SubSeq(a, k + 1, Len(a))

\* [v for row in board.tiles for v in row if v != 0], as a sequence.
NonBlankFlat(b) ==
    LET n == b.size
        all == [k \in 1..(n * n) |-> b.tiles[RowOf(k - 1, n)][ColOf(k - 1, n)]]
    IN SelectSeq(all, LAMBDA v : v # 0)

\* Variant of OracleStep that counts the entries of seen smaller than v.
OracleStepSmaller(acc, v) ==
    [inv |-> acc.inv + bisect_left(acc.seen, v),
     seen |-> insort(acc.seen, v)]

\* One iteration of is_solvable's loop on acc = [inv, seen].
OracleStep(acc, v) ==
    [inv |-> acc.inv + Len(acc.seen) - bisect_left(acc.seen, v),
     seen |-> insort(acc.seen, v)]

\* The loop over flat[1..k].
RECURSIVE OracleLoop(_, _)
OracleLoop(flat, k) ==
    IF k = 0 THEN [inv |-> 0, seen |-> <<>>]
    ELSE OracleStep(OracleLoop(flat, k - 1), flat[k])

\* The running inversion count of Solver.is_solvable.
RunningInv(b) == LET flat == NonBlankFlat(b) IN OracleLoop(flat, Len(flat)).inv

\* Variant of is_solvable that leaves the blank's row out on even sizes.
is_solvable_no_row(b) == RunningInv(b) % 2 = 0

\* Variant of is_solvable that counts the blank's row from the top.
is_solvable_row_from_top(b) ==
    LET n == b.size
        inv == RunningInv(b)
    IN IF n % 2 = 1 THEN inv % 2 = 0
       ELSE (inv + b.blank_pos[1]) % 2 = 0

\* Solver.is_solvable
is_solvable(b) ==
    LET n == b.size
        inv == RunningInv(b)
    IN IF n % 2 = 1 THEN inv % 2 = 0
       ELSE LET blank_from_bottom == n - 1 - b.blank_pos[1]
            IN (inv + blank_from_bottom) % 2 = 0

\* The fixture generator's double loop: pairs i < j with flat[i] > flat[j].
RECURSIVE PairInversionsFrom(_, _)
PairInversionsFrom(flat, i) ==
    IF i > Len(flat) THEN 0
    ELSE Cardinality({j \in (i + 1)..Len(flat) : flat[i] > flat[j]})
         + PairInversionsFrom(flat, i + 1)

PairInversions(flat) == PairInversionsFrom(flat, 1)

\* large_test_fixtures._is_solvable
fixture_is_solvable(b) ==
    LET n == b.size
        inversions == PairInversions(NonBlankFlat(b))
    IN IF n % 2 = 1 THEN inversions % 2 = 0
       ELSE LET blank_row_from_bottom == n - 1 - b.blank_pos[1]
            IN (inversions + blank_row_from_bottom) % 2 = 0

\* large_test_fixtures._apply_swap: exchange two tiles, blank_pos untouched.
apply_swap(b, p1, p2) ==
    LET v1 == b.tiles[p1[1]][p1[2]]
        v2 == b.tiles[p2[1]][p2[2]]
        t1 == [b.tiles EXCEPT ![p1[1]] = [@ EXCEPT ![p1[2]] = v2]]
        t2 == [t1 EXCEPT ![p2[1]] = [@ EXCEPT ![p2[2]] = v1]]
    IN MkBoard(b.size, t2, b.blank_pos)

\* ------------------------------------------------------ _B (flat grid)
\* _B.__init__: g (cell -> value), p (value -> cell), bi from blank_pos.
\* p[v] is the last cell holding v in row-major order, 0 if none holds it.
LastCellOf(flat, n, v) ==
    LET hits == {i \in Cells(n) : flat[i] = v}
    IN IF hits = {} THEN 0 ELSE CHOOSE i \in hits : \A j \in hits : j <= i

B_init(b) ==
    LET n == b.size
        flat == Flatten(b)
    IN [g |-> flat,
        p |-> [v \in Cells(n) |-> LastCellOf(flat, n, v)],
        bi |-> b.blank_pos[1] * n + b.blank_pos[2]]

\* _B.adj[i]: neighbours in the code's order (up, down, left, right).
adj(i, n) ==
    LET r == RowOf(i, n)
        c == ColOf(i, n)
    IN  (IF r > 0 THEN <<i - n>> ELSE <<>>)
     \o (IF r < n - 1 THEN <<i + n>> ELSE <<>>)
     \o (IF c > 0 THEN <<i - 1>> ELSE <<>>)
     \o (IF c < n - 1 THEN <<i + 1>> ELSE <<>>)

\* Variant of _dm with LEFT and RIGHT exchanged.
dm_mirrored(d, n) ==
    IF d = -1 THEN LEFT
    ELSE IF d = 1 THEN RIGHT
    ELSE IF d = -n THEN DOWN
    ELSE IF d = n THEN UP
    ELSE "KeyError"

\* _B._dm: the dict literal, later keys overriding earlier ones;
\* "KeyError" for a difference that is no key.
dm(d, n) ==
    IF d = -1 THEN RIGHT
    ELSE IF d = 1 THEN LEFT
    ELSE IF d = -n THEN DOWN
    ELSE IF d = n THEN UP
    ELSE "KeyError"

\* _B.sw on wb = [g, p, bi]: the grid after exchanging the blank with ni.
sw_grid(wb, ni) ==
    LET tv == wb.g[ni]
        g1 == [wb.g EXCEPT ![wb.bi] = tv]
        g2 == [g1 EXCEPT ![ni] = 0]
        p1 == [wb.p EXCEPT ![tv] = wb.bi]
        p2 == [p1 EXCEPT ![0] = ni]
    IN [g |-> g2, p |-> p2, bi |-> ni]

\* Variant of restore that leaves bi as it is.
restore_keep_bi(wb, s) == [g |-> s.g, p |-> s.p, bi |-> wb.bi]

\* _B.snap / _B.restore: copies of g and p, and bi.
snap(wb) == [g |-> wb.g, p |-> wb.p, bi |-> wb.bi]
restore(wb, s) == [g |-> s.g, p |-> s.p, bi |-> s.bi]


\* ------------------------------------------------------- Blank routing
\* "No path" (Python None) for the path builders; a path is a sequence of cells.
NoPath == <<-1>>
Abs(x) == IF x < 0 THEN -x ELSE x

\* The cells stepped through from (r, c) along the row to column tc.
HSeg(r, c, tc, n) == [k \in 1..Abs(tc - c) |-> r * n + c + k * Sign(c, tc)]
\* The cells stepped through from (r, c) along the column to row tr.
VSeg(r, c, tr, n) == [k \in 1..Abs(tr - r) |-> (r + k * Sign(r, tr)) * n + c]

\* No cell of the path is frozen.
Clear(path, fz) == \A k \in 1..Len(path) : fz[path[k]] = 0

\* _lpath: two straight segments, None if a traversed cell is frozen.
lpath(bi, tgt, n, fz, h_first) ==
    LET br == RowOf(bi, n)
        bc == ColOf(bi, n)
        tr == RowOf(tgt, n)
        tc == ColOf(tgt, n)
        path == IF h_first
                THEN HSeg(br, bc, tc, n) \o VSeg(br, tc, tr, n)
                ELSE VSeg(br, bc, tr, n) \o HSeg(tr, bc, tc, n)
    IN IF Clear(path, fz) THEN path ELSE NoPath

\* The first clear path of a sequence of candidate paths, None if there is none.
FirstClear(cands, fz) ==
    LET ok == {k \in 1..Len(cands) : Clear(cands[k], fz)}
    IN IF ok = {} THEN NoPath
       ELSE cands[CHOOSE k \in ok : \A j \in ok : k <= j]

\* _lpath3: the candidate three-segment paths in the order tried
\* (go-low, go-right, go-high, go-left, each by increasing offset).
lpath3_cands(bi, tgt, n) ==
    LET br == RowOf(bi, n)
        bc == ColOf(bi, n)
        tr == RowOf(tgt, n)
        tc == ColOf(tgt, n)
        low == [k \in 1..(n - 1 - Max(br, tr)) |->
                  LET sr == Max(br, tr) + k
                  IN VSeg(br, bc, sr, n) \o HSeg(sr, bc, tc, n) \o VSeg(sr, tc, tr, n)]
        right == [k \in 1..(n - 1 - Max(bc, tc)) |->
                  LET sc == Max(bc, tc) + k
                  IN HSeg(br, bc, sc, n) \o VSeg(br, sc, tr, n) \o HSeg(tr, sc, tc, n)]
        high == [k \in 1..Min(br, tr) |->
                  LET sr == Min(br, tr) - k
                  IN VSeg(br, bc, sr, n) \o HSeg(sr, bc, tc, n) \o VSeg(sr, tc, tr, n)]
        left == [k \in 1..Min(bc, tc) |->
                  LET sc == Min(bc, tc) - k
                  IN HSeg(br, bc, sc, n) \o VSeg(br, sc, tr, n) \o HSeg(tr, sc, tc, n)]
    IN low \o right \o high \o left

lpath3(bi, tgt, n, fz) == FirstClear(lpath3_cands(bi, tgt, n), fz)

\* The path tried from an escape cell: _lpath H-first, V-first, then _lpath3.
EscapeTail(c, tgt, n, fz) ==
    LET a == lpath(c, tgt, n, fz, TRUE)
    IN IF a # NoPath THEN a
       ELSE LET b == lpath(c, tgt, n, fz, FALSE)
            IN IF b # NoPath THEN b ELSE lpath3(c, tgt, n, fz)

\* The first entry of a sequence of paths that is a path.
FirstPath(cands) ==
    LET ok == {k \in 1..Len(cands) : cands[k] # NoPath}
    IN IF ok = {} THEN NoPath
       ELSE cands[CHOOSE k \in ok : \A j \in ok : k <= j]

\* 1-step escape: each unfrozen neighbour ne of bi, then a path from it.
escape1(bi, tgt, n, fz) ==
    LET nb == adj(bi, n)
    IN FirstPath([k \in 1..Len(nb) |->
          IF fz[nb[k]] # 0 THEN NoPath
          ELSE LET t == EscapeTail(nb[k], tgt, n, fz)
               IN IF t = NoPath THEN NoPath ELSE <<nb[k]>> \o t])

\* 2-step escape: neighbour ne, then its neighbour ne2 # bi, then a path.
escape2(bi, tgt, n, fz) ==
    LET nb == adj(bi, n)
    IN FirstPath([k \in 1..Len(nb) |->
          IF fz[nb[k]] # 0 THEN NoPath
          ELSE LET nb2 == adj(nb[k], n)
               IN FirstPath([j \in 1..Len(nb2) |->
                     IF fz[nb2[j]] # 0 \/ nb2[j] = bi THEN NoPath
                     ELSE LET t == EscapeTail(nb2[j], tgt, n, fz)
                          IN IF t = NoPath THEN NoPath
                             ELSE <<nb[k], nb2[j]>> \o t])])

\* A router that tries the vertical-first L-path before the horizontal-first.
bto_route_v_first(bi, tgt, n, fz) ==
    IF bi = tgt THEN [strategy |-> 0, path |-> <<>>]
    ELSE LET hv == lpath(bi, tgt, n, fz, TRUE)
             vh == lpath(bi, tgt, n, fz, FALSE)
             p3 == lpath3(bi, tgt, n, fz)
             e1 == escape1(bi, tgt, n, fz)
             e2 == escape2(bi, tgt, n, fz)
         IN IF vh # NoPath THEN [strategy |-> 2, path |-> vh]
            ELSE IF hv # NoPath THEN [strategy |-> 1, path |-> hv]
            ELSE IF p3 # NoPath THEN [strategy |-> 3, path |-> p3]
            ELSE IF e1 # NoPath THEN [strategy |-> 4, path |-> e1]
            ELSE IF e2 # NoPath THEN [strategy |-> 5, path |-> e2]
            ELSE [strategy |-> 6, path |-> NoPath]

\* _bto's plan: the cells the blank is swapped through, with the strategy that
\* produced them (0: already there, 1: L-path H-first, 2: L-path V-first,
\* 3: 3-phase, 4: 1-step escape, 5: 2-step escape, 6: RuntimeError "no path").
bto_route(bi, tgt, n, fz) ==
    IF bi = tgt THEN [strategy |-> 0, path |-> <<>>]
    ELSE LET hv == lpath(bi, tgt, n, fz, TRUE)
             vh == lpath(bi, tgt, n, fz, FALSE)
             p3 == lpath3(bi, tgt, n, fz)
             e1 == escape1(bi, tgt, n, fz)
             e2 == escape2(bi, tgt, n, fz)
         IN IF hv # NoPath THEN [strategy |-> 1, path |-> hv]
            ELSE IF vh # NoPath THEN [strategy |-> 2, path |-> vh]
            ELSE IF p3 # NoPath THEN [strategy |-> 3, path |-> p3]
            ELSE IF e1 # NoPath THEN [strategy |-> 4, path |-> e1]
            ELSE IF e2 # NoPath THEN [strategy |-> 5, path |-> e2]
            ELSE [strategy |-> 6, path |-> NoPath]


\* ------------------------------------------------------------- fixtures
Goal(n) == [i \in Cells(n) |-> IF i = n * n - 1 THEN 0 ELSE i + 1]

\* Every permutation of 0..3, as a flat 2x2 tile list.
Perms2 == {f \in [Cells(2) -> Cells(2)] : \A i, j \in Cells(2) : i # j => f[i] # f[j]}

\* The goal list with the contents of two cells exchanged.
SwapFlats(n) ==
    {[Goal(n) EXCEPT ![ij[1]] = Goal(n)[ij[2]], ![ij[2]] = Goal(n)[ij[1]]] :
        ij \in {x \in Cells(n) \X Cells(n) : x[1] < x[2]}}

\* The goal list with one cell overwritten by the content of another: a list
\* of the right length that is no permutation (Board.from_flat accepts it).
DupFlats(n) ==
    {[Goal(n) EXCEPT ![ij[1]] = Goal(n)[ij[2]]] :
        ij \in {x \in Cells(n) \X Cells(n) : x[1] # x[2]}}

\* large_test_fixtures._swap_positions: the two cells exchanged at a corner.
swap_positions(corner, direction, n) ==
    IF corner = "TL"
    THEN IF direction = "H" THEN <<<<0, 0>>, <<0, 1>>>> ELSE <<<<0, 0>>, <<1, 0>>>>
    ELSE IF corner = "TR"
    THEN IF direction = "H" THEN <<<<0, n - 2>>, <<0, n - 1>>>>
         ELSE <<<<0, n - 1>>, <<1, n - 1>>>>
    ELSE IF corner = "BL"
    THEN IF direction = "H" THEN <<<<n - 1, 0>>, <<n - 1, 1>>>>
         ELSE <<<<n - 2, 0>>, <<n - 1, 0>>>>
    ELSE IF direction = "H" THEN <<<<n - 1, n - 3>>, <<n - 1, n - 2>>>>
         ELSE <<<<n - 3, n - 1>>, <<n - 2, n - 1>>>>

\* _FIX_PAIRS: the corner where the parity fix is made.
FixPair(corner) ==
    CASE corner = "TL" -> "BR"
      [] corner = "TR" -> "BL"
      [] corner = "BL" -> "TR"
      [] corner = "BR" -> "TL"

\* large_test_fixtures._fix_swap_positions
fix_swap_positions(opposite_corner, n) ==
    IF opposite_corner = "TL" THEN <<<<0, 0>>, <<0, 1>>>>
    ELSE IF opposite_corner = "TR" THEN <<<<0, n - 2>>, <<0, n - 1>>>>
    ELSE IF opposite_corner = "BL" THEN <<<<n - 1, 0>>, <<n - 1, 1>>>>
    ELSE <<<<n - 2, n - 2>>, <<n - 2, n - 1>>>>

\* One board of _generate_edge_cases_for_size: the solved board with two
\* tiles exchanged at a corner and, when that is unsolvable, two more
\* exchanged at the opposite corner (in the middle row if the pairs overlap).
EdgeCaseBoard(corner, direction, n) ==
    LET p == swap_positions(corner, direction, n)
        b1 == apply_swap(solved(n), p[1], p[2])
        fp == fix_swap_positions(FixPair(corner), n)
        mid == n \div 2
        fq == IF {fp[1], fp[2]} \cap {p[1], p[2]} # {}
              THEN <<<<mid, 0>>, <<mid, 1>>>> ELSE fp
    IN IF fixture_is_solvable(b1) THEN b1 ELSE apply_swap(b1, fq[1], fq[2])

\* The corner-swap boards of one size, as flat lists.
EdgeCaseFlats(n) ==
    {Flatten(EdgeCaseBoard(corner, direction, n)) :
        corner \in {"TL", "TR", "BL", "BR"}, direction \in {"H", "V"}}

\* Lists of the wrong length for size n: the goal list without its first
\* element, and the goal list with one more tile appended.
BadLengthFlats(n) ==
    {[i \in 0..(n * n - 2) |-> Goal(n)[i + 1]],
     [i \in 0..(n * n) |-> IF i = n * n THEN n * n ELSE Goal(n)[i]]}

\* large_test_fixtures._generate_random_boards: a shuffled solvable board.
\* One 4x4 sample, [1,2,7,6, 14,5,12,3, 15,13,8,10, 0,9,11,4], on which the
\* blank has to be routed round two frozen cells and a ghost-frozen one.
RandomFlats(n) ==
    IF n = 4
    THEN {[i \in Cells(4) |->
             <<1, 2, 7, 6, 14, 5, 12, 3, 15, 13, 8, 10, 0, 9, 11, 4>>[i + 1]]}
    ELSE {}

\* The flat tile lists handed to Board.from_flat: every 2x2 permutation; for
\* larger boards the goal, its swaps, the corner-swap boards and the random
\* sample, and on 3x3 the overwritten lists.
FixtureFlats(n) ==
    IF n = 2 THEN Perms2
    ELSE {Goal(n)} \cup SwapFlats(n) \cup EdgeCaseFlats(n) \cup RandomFlats(n)
         \cup (IF n = 3 THEN DupFlats(n) ELSE {})

\* ----------------------------------------------------------------- state
VARIABLES
    pc,        \* phase of the harness: new, scramble, ready, rejected, solving, returned,
               \* replay, done
    board,     \* the Board object built, handed to the solver, then replayed on
    board0,    \* value of the Board when the solver was called
    origin,    \* how the Board was built: generate or from_flat
    shuffles,  \* scramble's loop counter
    prev_pos,  \* scramble's prev_pos
    api,       \* the entry point called: solve or hint
    wb,        \* the solver's _B: [g, p, bi]
    fz,        \* the frozen mask (bytearray)
    o,         \* the move list of Solver.solve
    trial,     \* the move list of the hook attempt under way
    stack,     \* call stack of the solver: one frame per active function
    pending,   \* cells still to be swapped through by the step under way
    pout,      \* the list the pending swaps append to: "o" or "trial"
    errs,      \* messages of the exceptions raised so far in this call
    ret,       \* outcome of Solver.solve
    hintRet,   \* outcome of Solver.hint
    replay,    \* the test's replay: [idx, moves, ok, won]
    visited,   \* history: the boards a hint has been applied to since the board was built
    heap       \* the list objects of a _B and of its snapshots, by reference

vars == <<pc, board, board0, origin, shuffles, prev_pos, api, wb, fz, o, trial,
          stack, pending, pout, errs, ret, hintRet, replay, visited, heap>>

genVars == <<shuffles, prev_pos>>
sessVars == <<wb, fz, o, trial, stack, pending, pout, errs>>
outVars == <<ret, hintRet, replay>>

NoRet == [kind |-> "pending"]
NoReplay == [idx |-> 0, moves |-> 0, ok |-> TRUE, won |-> FALSE]

Init ==
    /\ pc = "new"
    /\ board = None
    /\ board0 = None
    /\ origin = None
    /\ shuffles = 0
    /\ prev_pos = None
    /\ api = None
    /\ wb = None
    /\ fz = None
    /\ o = <<>>
    /\ trial = <<>>
    /\ stack = <<>>
    /\ pending = <<>>
    /\ pout = "o"
    /\ errs = {}
    /\ ret = NoRet
    /\ hintRet = NoRet
    /\ replay = NoReplay
    /\ visited = {}
    /\ heap = None

\* ------------------------------------------------------------ generator
\* num_shuffles of GameGenerator.scramble, capped.
NumShuffles(size) ==
    Min(size * size * 100, IF api = "generate" THEN MaxLongShuffles ELSE MaxShuffles)

\* GameGenerator.generate: the solved board, before scramble's loop.
Generate(size) ==
    /\ pc = "new"
    /\ board' = solved(size)
    /\ origin' = "generate"
    /\ shuffles' = 0
    /\ prev_pos' = None
    /\ pc' = "scramble"
    /\ UNCHANGED <<board0, api, sessVars, outVars, visited, heap>>

\* The neighbours scramble chooses from: prev_pos removed when others remain.
ScrambleChoices(b, prev) ==
    LET nb == get_neighbors(b)
        has == \E k \in 1..Len(nb) : nb[k] = prev
    IN IF has /\ Len(nb) > 1 THEN SelectSeq(nb, LAMBDA t : t # prev) ELSE nb

\* One iteration of scramble's loop.
ScrambleStep ==
    /\ pc = "scramble"
    /\ shuffles < NumShuffles(board.size)
    /\ LET ch == ScrambleChoices(board, prev_pos)
       IN \E k \in 1..Len(ch) :
            /\ prev_pos' = board.blank_pos
            /\ board' = swap(board, ch[k])
    /\ shuffles' = shuffles + 1
    /\ UNCHANGED <<pc, board0, origin, api, sessVars, outVars, visited, heap>>

\* A generate that returns whatever scramble left.
GenerateReturnNoRetry ==
    /\ pc = "scramble"
    /\ shuffles = NumShuffles(board.size)
    /\ shuffles' = 0
    /\ prev_pos' = None
    /\ board' = board
    /\ pc' = "ready"
    /\ UNCHANGED <<board0, origin, api, sessVars, outVars, visited, heap>>

\* generate after scramble: a solved board is generated again.
GenerateReturn ==
    /\ pc = "scramble"
    /\ shuffles = NumShuffles(board.size)
    /\ shuffles' = 0
    /\ prev_pos' = None
    /\ IF is_solved(board)
       THEN /\ board' = solved(board.size)
            /\ pc' = "scramble"
       ELSE /\ board' = board
            /\ pc' = "ready"
    /\ UNCHANGED <<board0, origin, api, sessVars, outVars, visited, heap>>

\* A board built from a flat list; a list of the wrong length is rejected
\* with ValueError and no board exists.
FromFlat(size, flat) ==
    /\ pc = "new"
    /\ origin' = "from_flat"
    /\ IF FlatLen(flat) # size * size
       THEN /\ errs' = {from_flat(size, flat)}
            /\ pc' = "rejected"
            /\ UNCHANGED <<board, wb, fz, o, trial, stack, pending, pout>>
       ELSE /\ board' = from_flat(size, flat)
            /\ pc' = "ready"
            /\ UNCHANGED sessVars
    /\ UNCHANGED <<board0, genVars, api, outVars, visited, heap>>

\* --------------------------------------------------------- solver: frames
N == board0.size
NN == N * N
Top == stack[Len(stack)]
Popped == SubSeq(stack, 1, Len(stack) - 1)
\* The stack with its top frame replaced by f, and with g pushed above f.
WithTop(f) == Popped \o <<f>>
Call(f, g) == Popped \o <<f, g>>
Running(fn, at) ==
    /\ pc = "solving"
    /\ ret.kind = "pending"
    /\ pending = <<>>
    /\ stack # <<>>
    /\ Top.fn = fn
    /\ Top.pc = at

SolveFrame == [fn |-> "solve", pc |-> "loop", off |-> 0]
RowFrame(off) == [fn |-> "row", pc |-> "loop", off |-> off, c |-> off]
ColFrame(off) == [fn |-> "col", pc |-> "loop", off |-> off, r |-> off + 1]
MtoFrame(v, gi, out) ==
    [fn |-> "mto", pc |-> "iter", v |-> v, gi |-> gi, out |-> out, it |-> 0, ti |-> 0,
     done |-> FALSE, fz0 |-> None]
L2Frame(kind, s, va, vb) ==
    [fn |-> "last2", pc |-> "entry", kind |-> kind, s |-> s, va |-> va, vb |-> vb,
     attempt |-> 0, snap |-> None, fz_snap |-> None]
E2Frame(off) == [fn |-> "solve_2x2", pc |-> "entry", off |-> off, k |-> 0]

\* The hook frame's pcs that lie inside its try block.
TryPcs == {"stage_a", "after_a", "after_b", "rotate", "verify"}

\* The innermost frame whose try block is active (0: none).
CatchIdx ==
    LET hs == {k \in 1..Len(stack) : stack[k].fn = "last2" /\ stack[k].pc \in TryPcs}
    IN IF hs = {} THEN 0 ELSE CHOOSE k \in hs : \A j \in hs : j <= k

\* A raise that already puts the grid back to the attempt's snapshot.
RaiseRollsBack(exc, msg, fzNow, wbNow, trialNow) ==
    /\ errs' = errs \cup {msg}
    /\ pending' = <<>>
    /\ wb' = IF CatchIdx > 0 THEN restore(wbNow, stack[CatchIdx].snap) ELSE wbNow
    /\ fz' = fzNow
    /\ trial' = trialNow
    /\ ret' = [kind |-> "raising", exc |-> exc, msg |-> msg]
    /\ UNCHANGED <<pc, stack, o, pout>>

\* raise exc(msg) with the grid, mask and lists as they are at the raise: the
\* exception is in flight (ret.kind = "raising") and the frames are still
\* those of the raising call.
Raise(exc, msg, fzNow, wbNow, trialNow) ==
    /\ errs' = errs \cup {msg}
    /\ pending' = <<>>
    /\ wb' = wbNow
    /\ fz' = fzNow
    /\ trial' = trialNow
    /\ ret' = [kind |-> "raising", exc |-> exc, msg |-> msg]
    /\ UNCHANGED <<pc, stack, o, pout>>

\* ------------------------------------------------------------ public API
ZeroMask(n) == [i \in Cells(n) |-> 0]

\* Variant of EnterSolve without the solvability test.
EnterSolveNoParity ==
    IF is_solved(board)
    THEN /\ ret' = [kind |-> "list", moves |-> <<>>]
         /\ pc' = "returned"
         /\ UNCHANGED sessVars
    ELSE /\ wb' = B_init(board)
         /\ o' = <<>>
         /\ fz' = ZeroMask(board.size)
         /\ stack' = <<SolveFrame>>
         /\ pc' = "solving"
         /\ UNCHANGED <<ret, trial, pending, pout, errs>>

\* Variant of EnterSolve that rejects a solved board with an exception.
EnterSolveRejectsSolved ==
    IF is_solved(board)
    THEN /\ ret' = [kind |-> "raise", exc |-> "ValueError", msg |-> "already solved"]
         /\ pc' = "returned"
         /\ UNCHANGED sessVars
    ELSE IF ~is_solvable(board)
    THEN /\ ret' = [kind |-> "list", moves |-> <<>>]
         /\ pc' = "returned"
         /\ UNCHANGED sessVars
    ELSE /\ wb' = B_init(board)
         /\ o' = <<>>
         /\ fz' = ZeroMask(board.size)
         /\ stack' = <<SolveFrame>>
         /\ pc' = "solving"
         /\ UNCHANGED <<ret, trial, pending, pout, errs>>

\* Solver.solve up to the call of _solve: [] for a solved or unsolvable board.
EnterSolve ==
    IF is_solved(board) \/ ~is_solvable(board)
    THEN /\ ret' = [kind |-> "list", moves |-> <<>>]
         /\ pc' = "returned"
         /\ UNCHANGED sessVars
    ELSE /\ wb' = B_init(board)
         /\ o' = <<>>
         /\ fz' = ZeroMask(board.size)
         /\ stack' = <<SolveFrame>>
         /\ pc' = "solving"
         /\ UNCHANGED <<ret, trial, pending, pout, errs>>

\* The test calls Solver.solve(board).
CallSolve ==
    /\ pc = "ready"
    /\ api' = "solve"
    /\ board0' = board
    /\ EnterSolve
    /\ UNCHANGED <<board, origin, genVars, hintRet, replay, visited, heap>>

\* A front-end calls Solver.hint(board): None at once for a solved board,
\* Solver.solve otherwise.
CallHint ==
    /\ pc = "ready"
    /\ api' = "hint"
    /\ board0' = board
    /\ IF is_solved(board)
       THEN /\ hintRet' = [kind |-> "value", value |-> None]
            /\ pc' = "done"
            /\ UNCHANGED <<ret, sessVars>>
       ELSE /\ EnterSolve
            /\ UNCHANGED hintRet
    /\ UNCHANGED <<board, origin, genVars, replay, visited, heap>>

\* _solve has returned: Solver.solve returns the move list.
SolveReturn ==
    /\ pc = "solving"
    /\ stack = <<>>
    /\ pending = <<>>
    /\ ret' = [kind |-> "list", moves |-> o]
    /\ pc' = "returned"
    /\ UNCHANGED <<board, board0, origin, genVars, api, sessVars, hintRet, replay, visited, heap>>

\* The exception classes hint's except clause names.
HintCatches(exc) == exc = "NotImplementedError"

\* Variant of HintValue that takes the last move.
HintValueLast(moves) == IF moves # <<>> THEN moves[Len(moves)] ELSE None

\* hint's return expression: moves[0] if moves else None.
HintValue(moves) == IF moves # <<>> THEN moves[1] ELSE None

\* Solver.hint after its call of Solver.solve.
HintReturn ==
    /\ pc = "returned"
    /\ api = "hint"
    /\ hintRet' =
         IF ret.kind = "raise"
         THEN IF HintCatches(ret.exc) THEN [kind |-> "value", value |-> None]
              ELSE ret
         ELSE [kind |-> "value", value |-> HintValue(ret.moves)]
    /\ pc' = "done"
    /\ UNCHANGED <<board, board0, origin, genVars, api, sessVars, ret, replay, visited, heap>>

\* ---------------------------------------------------------- test replay
\* _assert_solve: one iteration of the loop over the returned moves, on the
\* board object that was passed to solve; assert ok stops the test.
ReplayStep ==
    /\ pc \in {"returned", "replay"}
    /\ api = "solve"
    /\ ret.kind = "list"
    /\ replay.ok
    /\ replay.idx < Len(ret.moves)
    /\ LET r == GamePlayMove([board |-> board, moves |-> replay.moves],
                             ret.moves[replay.idx + 1])
       IN /\ board' = r.game.board
          /\ replay' = [replay EXCEPT !.idx = @ + 1, !.moves = r.game.moves,
                                      !.ok = r.ok]
    /\ pc' = "replay"
    /\ UNCHANGED <<board0, origin, genVars, api, sessVars, ret, hintRet, visited, heap>>

\* _assert_solve after the loop: game.is_won; also the end of a failed test.
ReplayEnd ==
    /\ pc \in {"returned", "replay"}
    /\ api = "solve"
    /\ IF ret.kind = "raise" THEN TRUE
       ELSE IF ~replay.ok THEN TRUE
       ELSE replay.idx = Len(ret.moves)
    /\ replay' = [replay EXCEPT !.won = replay.ok /\ ret.kind = "list" /\ is_solved(board)]
    /\ pc' = "done"
    /\ UNCHANGED <<board, board0, origin, genVars, api, sessVars, ret, hintRet, visited, heap>>

\* ------------------------------------------------------- solver: steps
harnessVars == <<board, board0, origin, shuffles, prev_pos, api, hintRet, replay,
                visited, heap>>

\* An except clause that resets the mask but leaves the grid as it is.
HookExceptKeepsGrid ==
    /\ pc = "solving"
    /\ ret.kind = "raising"
    /\ CatchIdx > 0
    /\ LET f == stack[CatchIdx]
       IN /\ stack' = SubSeq(stack, 1, CatchIdx - 1) \o <<[f EXCEPT !.pc = "retry"]>>
          /\ fz' = f.fz_snap
    /\ ret' = NoRet
    /\ UNCHANGED <<pc, wb, o, trial, pending, pout, errs>>
    /\ UNCHANGED harnessVars

\* The hook's "except (RuntimeError, KeyError)": the frames above the hook
\* are unwound, the snapshot is restored, the mask is reset, and the hook
\* goes on to the retry push.
HookExcept ==
    /\ pc = "solving"
    /\ ret.kind = "raising"
    /\ CatchIdx > 0
    /\ LET f == stack[CatchIdx]
       IN /\ stack' = SubSeq(stack, 1, CatchIdx - 1) \o <<[f EXCEPT !.pc = "retry"]>>
          /\ wb' = restore(wb, f.snap)
          /\ fz' = f.fz_snap
    /\ ret' = NoRet
    /\ UNCHANGED <<pc, o, trial, pending, pout, errs>>
    /\ UNCHANGED harnessVars

\* An exception no hook attempt catches leaves _solve and Solver.solve.
SolveRaises ==
    /\ pc = "solving"
    /\ ret.kind = "raising"
    /\ CatchIdx = 0
    /\ stack' = <<>>
    /\ ret' = [kind |-> "raise", exc |-> ret.exc, msg |-> ret.msg]
    /\ pc' = "returned"
    /\ UNCHANGED <<wb, fz, o, trial, pending, pout, errs>>
    /\ UNCHANGED harnessVars

\* A step of the solver that raises nothing.
Step(stk, wb2, fz2, o2, trial2, pend, po) ==
    /\ stack' = stk
    /\ wb' = wb2
    /\ fz' = fz2
    /\ o' = o2
    /\ trial' = trial2
    /\ pending' = pend
    /\ pout' = po
    /\ UNCHANGED <<errs, pc, ret>>

\* A step that only moves control.
Goto(stk) == Step(stk, wb, fz, o, trial, pending, pout)

\* A sw whose grid shares the Board's tiles: each exchange is also made on
\* the caller's Board.
SwAliased ==
    /\ pc = "solving"
    /\ pending # <<>>
    /\ LET ni == Head(pending)
           dir == dm(ni - wb.bi, N)
       IN IF dir = "KeyError"
          THEN /\ Raise("KeyError", "KeyError", fz, wb, trial)
               /\ UNCHANGED board
          ELSE /\ Step(stack, sw_grid(wb, ni), fz,
                       IF pout = "o" THEN Append(o, dir) ELSE o,
                       IF pout = "trial" THEN Append(trial, dir) ELSE trial,
                       Tail(pending), pout)
               /\ board' = swap(board, <<RowOf(ni, N), ColOf(ni, N)>>)
    /\ UNCHANGED <<board0, origin, shuffles, prev_pos, api, hintRet, replay, visited, heap>>

\* _B.sw(ni, out): record the direction, then exchange blank and ni.
Sw ==
    /\ pc = "solving"
    /\ pending # <<>>
    /\ LET ni == Head(pending)
           dir == dm(ni - wb.bi, N)
       IN IF dir = "KeyError"
          THEN Raise("KeyError", "KeyError", fz, wb, trial)
          ELSE Step(stack, sw_grid(wb, ni), fz,
                    IF pout = "o" THEN Append(o, dir) ELSE o,
                    IF pout = "trial" THEN Append(trial, dir) ELSE trial,
                    Tail(pending), pout)
    /\ UNCHANGED harnessVars

\* _solve: the loop test, then _row; or the 2x2 endgame; or return.
SolveLoop ==
    /\ Running("solve", "loop")
    /\ LET f == Top
       IN IF N - f.off > 2
          THEN Goto(Call([f EXCEPT !.pc = "col"], RowFrame(f.off)))
          ELSE IF N - f.off = 2
          THEN Goto(Call([f EXCEPT !.pc = "ret"], E2Frame(f.off)))
          ELSE Goto(Popped)
    /\ UNCHANGED harnessVars

\* _solve: _col after _row.
SolveCol ==
    /\ Running("solve", "col")
    /\ Goto(Call([Top EXCEPT !.pc = "inc"], ColFrame(Top.off)))
    /\ UNCHANGED harnessVars

\* An orchestrator that steps two rings at a time.
SolveIncSkip ==
    /\ Running("solve", "inc")
    /\ Goto(WithTop([Top EXCEPT !.off = @ + 2, !.pc = "loop"]))
    /\ UNCHANGED harnessVars

\* _solve: off += 1.
SolveInc ==
    /\ Running("solve", "inc")
    /\ Goto(WithTop([Top EXCEPT !.off = @ + 1, !.pc = "loop"]))
    /\ UNCHANGED harnessVars

\* _solve returns after _solve_2x2.
SolveRet ==
    /\ Running("solve", "ret")
    /\ Goto(Popped)
    /\ UNCHANGED harnessVars

\* _row: push the next tile of the strip, or hand the last two to the hook.
RowLoop ==
    /\ Running("row", "loop")
    /\ LET f == Top
           last == N - 1
           base == f.off * N
       IN IF f.c < last - 1
          THEN Goto(Call([f EXCEPT !.pc = "freeze"],
                         MtoFrame(base + f.c + 1, base + f.c, "o")))
          ELSE Goto(Call([f EXCEPT !.pc = "fin"],
                         L2Frame("row", f.off, base + last, base + last + 1)))
    /\ UNCHANGED harnessVars

\* A _row that moves on without freezing the cell just filled.
RowFreezeForgets ==
    /\ Running("row", "freeze")
    /\ LET f == Top
       IN Step(WithTop([f EXCEPT !.c = @ + 1, !.pc = "loop"]), wb, fz, o, trial,
               pending, pout)
    /\ UNCHANGED harnessVars

\* _row: freeze the cell just filled.
RowFreeze ==
    /\ Running("row", "freeze")
    /\ LET f == Top
       IN Step(WithTop([f EXCEPT !.c = @ + 1, !.pc = "loop"]), wb,
               [fz EXCEPT ![f.off * N + f.c] = 1], o, trial, pending, pout)
    /\ UNCHANGED harnessVars

\* _row: freeze the last two cells and return.
RowFin ==
    /\ Running("row", "fin")
    /\ LET base == Top.off * N
           last == N - 1
       IN Step(Popped, wb, [fz EXCEPT ![base + last - 1] = 1, ![base + last] = 1],
               o, trial, pending, pout)
    /\ UNCHANGED harnessVars

\* _col: push the next tile of the strip, or hand the last two to the hook.
ColLoop ==
    /\ Running("col", "loop")
    /\ LET f == Top
           c == f.off
           last == N - 1
       IN IF f.r < last - 1
          THEN Goto(Call([f EXCEPT !.pc = "freeze"],
                         MtoFrame(f.r * N + c + 1, f.r * N + c, "o")))
          ELSE Goto(Call([f EXCEPT !.pc = "fin"],
                         L2Frame("col", c, (last - 1) * N + c + 1, last * N + c + 1)))
    /\ UNCHANGED harnessVars

\* _col: freeze the cell just filled.
ColFreeze ==
    /\ Running("col", "freeze")
    /\ LET f == Top
       IN Step(WithTop([f EXCEPT !.r = @ + 1, !.pc = "loop"]), wb,
               [fz EXCEPT ![f.r * N + f.off] = 1], o, trial, pending, pout)
    /\ UNCHANGED harnessVars

\* _col: freeze the last two cells and return.
ColFin ==
    /\ Running("col", "fin")
    /\ LET c == Top.off
           last == N - 1
       IN Step(Popped, wb,
               [fz EXCEPT ![(last - 1) * N + c] = 1, ![last * N + c] = 1],
               o, trial, pending, pout)
    /\ UNCHANGED harnessVars

\* ---------------------------------------------------------- Tile pusher
\* The first entry of a sequence of cells that is unfrozen, as an offset
\* from ti; 0 if every entry is frozen.
FirstOpenDelta(nb, ti, mask) ==
    LET open == {k \in 1..Len(nb) : mask[nb[k]] = 0}
    IN IF open = {} THEN 0
       ELSE nb[CHOOSE k \in open : \A j \in open : k <= j] - ti

\* _mto's choice of delta: column first, row second, detour if blocked.
mto_delta(ti, gi, n, mask) ==
    LET tr == RowOf(ti, n)
        tc == ColOf(ti, n)
        gr == RowOf(gi, n)
        gc == ColOf(gi, n)
        dcol == IF tc < gc THEN 1 ELSE -1
        drow == IF tr < gr THEN n ELSE -n
    IN IF tc # gc /\ mask[ti + dcol] = 0 THEN dcol
       ELSE IF tr # gr /\ mask[ti + drow] = 0 THEN drow
       ELSE FirstOpenDelta(adj(ti, n), ti, mask)

\* Variant of AroundSide without the row test on the blank's side cell.
AroundSideNoRowTest(bi, ti, target, perp, n, mask, wrapGuard) ==
    LET c1 == bi + perp
        c2 == ti + perp
        c3 == target + perp
    IN IF c1 < 0 \/ c1 >= n * n THEN NoPath
       ELSE IF c3 < 0 \/ c3 >= n * n THEN NoPath
       ELSE IF mask[c1] # 0 \/ mask[c2] # 0 \/ mask[c3] # 0 THEN NoPath
       ELSE <<c1, c2, c3, target>>

\* The around shortcut on one side (perp), None if that side is refused.
AroundSide(bi, ti, target, perp, n, mask, wrapGuard) ==
    LET c1 == bi + perp
        c2 == ti + perp
        c3 == target + perp
    IN IF c1 < 0 \/ c1 >= n * n THEN NoPath
       ELSE IF wrapGuard /\ RowOf(c1, n) # RowOf(bi, n) THEN NoPath
       ELSE IF c3 < 0 \/ c3 >= n * n THEN NoPath
       ELSE IF mask[c1] # 0 \/ mask[c2] # 0 \/ mask[c3] # 0 THEN NoPath
       ELSE <<c1, c2, c3, target>>

\* A shortcut that takes the blank straight through the tile's cell.
mto_around_through(bi, ti, delta, n, mask) ==
    IF bi # ti - delta THEN NoPath ELSE <<ti, ti + delta>>

\* _mto's fast path: the blank right behind the tile walks around it.
\* None when the shortcut does not apply.
mto_around(bi, ti, delta, n, mask) ==
    LET target == ti + delta
    IN IF bi # ti - delta THEN NoPath
       ELSE IF delta = 1 \/ delta = -1
       THEN IF RowOf(bi, n) = RowOf(ti, n)
            THEN FirstPath(<<AroundSide(bi, ti, target, n, n, mask, FALSE),
                             AroundSide(bi, ti, target, -n, n, mask, FALSE)>>)
            ELSE NoPath
       ELSE IF ColOf(bi, n) = ColOf(ti, n)
            THEN FirstPath(<<AroundSide(bi, ti, target, 1, n, mask, TRUE),
                             AroundSide(bi, ti, target, -1, n, mask, TRUE)>>)
            ELSE NoPath

\* The iteration cap of _mto.
mto_max_steps(n) == 4 * (n * n)

\* _mto: one iteration up to the slide: return if the tile is home, else
\* choose delta, ghost-freeze the tile and plan the blank's way to the
\* cell in front of it.
MtoIter ==
    /\ Running("mto", "iter")
    /\ LET f == Top
           ti == wb.p[f.v]
       IN IF f.it = mto_max_steps(N)
          THEN Raise("RuntimeError", "_mto max iterations", fz, wb, trial)
          ELSE IF ti = f.gi
          THEN Goto(Popped)
          ELSE LET delta == mto_delta(ti, f.gi, N, fz)
                   fz1 == [fz EXCEPT ![ti] = 1]
               IN IF delta = 0
                  THEN Raise("RuntimeError", "_mto stuck", fz, wb, trial)
                  ELSE LET ar == mto_around(wb.bi, ti, delta, N, fz1)
                           rt == bto_route(wb.bi, ti + delta, N, fz1)
                           nf == [f EXCEPT !.pc = "slide", !.ti = ti, !.done = (ar # NoPath),
                                        !.fz0 = IF f.it = 0 THEN fz ELSE @]
                       IN IF ar # NoPath
                          THEN Step(WithTop(nf), wb, fz1, o, trial, ar, f.out)
                          ELSE IF rt.strategy = 6
                          THEN Raise("RuntimeError", "_bto: no path", fz1, wb, trial)
                          ELSE Step(WithTop(nf), wb, fz1, o, trial, rt.path, f.out)
    /\ UNCHANGED harnessVars

\* A slide that leaves the ghost freeze on the vacated cell.
MtoSlideKeepsGhost ==
    /\ Running("mto", "slide")
    /\ LET f == Top
           dir == dm(f.ti - wb.bi, N)
       IN IF dir = "KeyError"
          THEN Raise("KeyError", "KeyError", fz, wb, trial)
          ELSE Step(WithTop([f EXCEPT !.pc = "iter", !.it = @ + 1]),
                    sw_grid(wb, f.ti), fz,
                    IF f.out = "o" THEN Append(o, dir) ELSE o,
                    IF f.out = "trial" THEN Append(trial, dir) ELSE trial,
                    pending, pout)
    /\ UNCHANGED harnessVars

\* _mto: unfreeze the tile's cell and slide the tile (sw(ti)).
MtoSlide ==
    /\ Running("mto", "slide")
    /\ LET f == Top
           fz2 == [fz EXCEPT ![f.ti] = 0]
           dir == dm(f.ti - wb.bi, N)
       IN IF dir = "KeyError"
          THEN Raise("KeyError", "KeyError", fz2, wb, trial)
          ELSE Step(WithTop([f EXCEPT !.pc = "iter", !.it = @ + 1]),
                    sw_grid(wb, f.ti), fz2,
                    IF f.out = "o" THEN Append(o, dir) ELSE o,
                    IF f.out = "trial" THEN Append(trial, dir) ELSE trial,
                    pending, pout)
    /\ UNCHANGED harnessVars

\* ------------------------------------------------------ Hook placement
\* The cells of _last2_row (kind "row", s = r) and _last2_col (kind "col",
\* s = c), last = n - 1.
HookCells(kind, s, n) ==
    LET last == n - 1
    IN IF kind = "row"
       THEN [gi_a |-> s * n + last - 1, gi_b |-> s * n + last,
             stg_a |-> s * n + last, stg_b |-> (s + 1) * n + last,
             bl_stg |-> (s + 1) * n + last - 1, notch |-> s * n + last - 1,
             park |-> (n - 1) * n + last]
       ELSE [gi_a |-> (last - 1) * n + s, gi_b |-> last * n + s,
             stg_a |-> last * n + s, stg_b |-> last * n + s + 1,
             bl_stg |-> (last - 1) * n + s + 1, notch |-> (last - 1) * n + s,
             park |-> last * n + (n - 1)]

\* The cell vb is pushed to before a retry.
HookSafe(kind, s, attempt, n) ==
    LET last == n - 1
    IN IF kind = "row"
       THEN Min(n - 1, s + 2 + attempt) * n + Min(last - (attempt % 2), n - 1)
       ELSE last * n + Min(n - 1, s + 2 + attempt)

\* The number of attempts of the hook.
HookAttempts == 4

\* Variant of HookPlaced that looks at va only.
HookPlacedFirstOnly(f) ==
    LET hc == HookCells(f.kind, f.s, N)
    IN wb.p[f.va] = hc.gi_a

\* Both tiles of the strip's end are on their goal cells.
HookPlaced(f) ==
    LET hc == HookCells(f.kind, f.s, N)
    IN wb.p[f.va] = hc.gi_a /\ wb.p[f.vb] = hc.gi_b

\* A hook without the early return.
HookEntryAlwaysTries ==
    /\ Running("last2", "entry")
    /\ Goto(WithTop([Top EXCEPT !.pc = "try"]))
    /\ UNCHANGED harnessVars

\* _last2_row / _last2_col: return at once if both tiles are placed.
HookEntry ==
    /\ Running("last2", "entry")
    /\ IF HookPlaced(Top) THEN Goto(Popped)
       ELSE Goto(WithTop([Top EXCEPT !.pc = "try"]))
    /\ UNCHANGED harnessVars

\* Start of an attempt: snapshot, empty trial list, park vb.
HookTry ==
    /\ Running("last2", "try")
    /\ LET f == Top
           hc == HookCells(f.kind, f.s, N)
           f1 == [f EXCEPT !.snap = snap(wb), !.fz_snap = fz, !.pc = "stage_a"]
       IN IF f.attempt = HookAttempts
          THEN Raise("RuntimeError", "_last2: exhausted retries", fz, wb, trial)
          ELSE IF wb.p[f.vb] # hc.stg_b /\ wb.p[f.vb] # hc.park
          THEN Step(Call(f1, MtoFrame(f.vb, hc.park, "trial")),
                    wb, fz, o, <<>>, pending, pout)
          ELSE Step(WithTop(f1), wb, fz, o, <<>>, pending, pout)
    /\ UNCHANGED harnessVars

\* Stage va at the corner.
HookStageA ==
    /\ Running("last2", "stage_a")
    /\ LET f == Top
           hc == HookCells(f.kind, f.s, N)
       IN Goto(Call([f EXCEPT !.pc = "after_a"], MtoFrame(f.va, hc.stg_a, "trial")))
    /\ UNCHANGED harnessVars

\* Freeze the corner; vb in the notch fails the attempt; else freeze the
\* notch and stage vb.
HookAfterA ==
    /\ Running("last2", "after_a")
    /\ LET f == Top
           hc == HookCells(f.kind, f.s, N)
           fz1 == [fz EXCEPT ![hc.stg_a] = 1]
           fz2 == [fz1 EXCEPT ![hc.notch] = 1]
       IN IF wb.p[f.vb] = hc.notch
          THEN Raise("RuntimeError", "vb in notch after staging va", fz1, wb, trial)
          ELSE Step(Call([f EXCEPT !.pc = "after_b"], MtoFrame(f.vb, hc.stg_b, "trial")),
                    wb, fz2, o, trial, pending, pout)
    /\ UNCHANGED harnessVars

\* Unfreeze the notch, freeze vb's staging cell, route the blank.
HookAfterB ==
    /\ Running("last2", "after_b")
    /\ LET f == Top
           hc == HookCells(f.kind, f.s, N)
           fz1 == [fz EXCEPT ![hc.notch] = 0, ![hc.stg_b] = 1]
           rt == bto_route(wb.bi, hc.bl_stg, N, fz1)
       IN IF rt.strategy = 6
          THEN Raise("RuntimeError", "_bto: no path", fz1, wb, trial)
          ELSE Step(WithTop([f EXCEPT !.pc = "rotate"]), wb, fz1, o, trial,
                    rt.path, "trial")
    /\ UNCHANGED harnessVars

\* A rotation of two swaps only: the corner and the cell next to it.
HookRotateTwoSwaps ==
    /\ Running("last2", "rotate")
    /\ LET hc == HookCells(Top.kind, Top.s, N)
       IN Step(WithTop([Top EXCEPT !.pc = "verify"]), wb, fz, o, trial,
               <<hc.stg_a, hc.stg_b>>, "trial")
    /\ UNCHANGED harnessVars

\* The 3-swap rotation.
HookRotate ==
    /\ Running("last2", "rotate")
    /\ LET hc == HookCells(Top.kind, Top.s, N)
       IN Step(WithTop([Top EXCEPT !.pc = "verify"]), wb, fz, o, trial,
               <<hc.notch, hc.stg_a, hc.stg_b>>, "trial")
    /\ UNCHANGED harnessVars

\* A verification step that leaves the attempt's freezes in the mask.
HookVerifyKeepsMask ==
    /\ Running("last2", "verify")
    /\ LET f == Top
       IN IF HookPlaced(f)
          THEN Step(Popped, wb, fz, o \o trial, trial, pending, pout)
          ELSE Step(WithTop([f EXCEPT !.pc = "retry"]), restore(wb, f.snap),
                    fz, o, trial, pending, pout)
    /\ UNCHANGED harnessVars

\* Reset the mask; commit the trial moves if both tiles are placed, else
\* restore the snapshot.
HookVerify ==
    /\ Running("last2", "verify")
    /\ LET f == Top
       IN IF HookPlaced(f)
          THEN Step(Popped, wb, f.fz_snap, o \o trial, trial, pending, pout)
          ELSE Step(WithTop([f EXCEPT !.pc = "retry"]), restore(wb, f.snap),
                    f.fz_snap, o, trial, pending, pout)
    /\ UNCHANGED harnessVars

\* Push vb further away before the next attempt.
HookRetry ==
    /\ Running("last2", "retry")
    /\ LET f == Top
       IN Goto(Call([f EXCEPT !.attempt = @ + 1, !.pc = "try"],
                    MtoFrame(f.vb, HookSafe(f.kind, f.s, f.attempt, N), "o")))
    /\ UNCHANGED harnessVars

\* -------------------------------------------------------------- Endgame
\* The goal pattern of the 2x2 block at ring off.
E2Match(g, off, n) ==
    LET tl == off * n + off
    IN g[tl] = tl + 1 /\ g[tl + 1] = tl + 2 /\ g[tl + n] = tl + n + 1

\* The number of rotations _solve_2x2 tries.
E2Rotations == 2

\* _solve_2x2: return if the block matches, else route the blank to br.
E2Entry ==
    /\ Running("solve_2x2", "entry")
    /\ LET f == Top
           br == f.off * N + f.off + N + 1
           rt == bto_route(wb.bi, br, N, fz)
       IN IF E2Match(wb.g, f.off, N) THEN Goto(Popped)
          ELSE IF rt.strategy = 6
          THEN Raise("RuntimeError", "_bto: no path", fz, wb, trial)
          ELSE Step(WithTop([f EXCEPT !.pc = "rot"]), wb, fz, o, trial, rt.path, "o")
    /\ UNCHANGED harnessVars

\* A rotation loop without its exit tests: it rotates for ever.
E2RotNoExit ==
    /\ Running("solve_2x2", "rot")
    /\ LET f == Top
           tl == f.off * N + f.off
       IN Step(WithTop([f EXCEPT !.k = @ + 1]), wb, fz, o, trial,
               <<tl + N, tl, tl + 1, tl + N + 1>>, "o")
    /\ UNCHANGED harnessVars

\* A rotation loop that gives up after one rotation.
E2RotOnce ==
    /\ Running("solve_2x2", "rot")
    /\ LET f == Top
           tl == f.off * N + f.off
       IN IF f.k < E2Rotations - 1
          THEN IF E2Match(wb.g, f.off, N) THEN Goto(Popped)
               ELSE Step(WithTop([f EXCEPT !.k = @ + 1]), wb, fz, o, trial,
                         <<tl + N, tl, tl + 1, tl + N + 1>>, "o")
          ELSE Goto(Popped)
    /\ UNCHANGED harnessVars

\* _solve_2x2: one pass of the rotation loop.
E2Rot ==
    /\ Running("solve_2x2", "rot")
    /\ LET f == Top
           tl == f.off * N + f.off
       IN IF f.k < E2Rotations
          THEN IF E2Match(wb.g, f.off, N) THEN Goto(Popped)
               ELSE Step(WithTop([f EXCEPT !.k = @ + 1]), wb, fz, o, trial,
                         <<tl + N, tl, tl + 1, tl + N + 1>>, "o")
          ELSE Goto(Popped)
    /\ UNCHANGED harnessVars

\* ------------------------------------------------------- specification
SolverStep ==
    \/ Sw
    \/ SolveLoop \/ SolveCol \/ SolveInc \/ SolveRet
    \/ RowLoop \/ RowFreeze \/ RowFin
    \/ ColLoop \/ ColFreeze \/ ColFin
    \/ MtoIter \/ MtoSlide
    \/ HookEntry \/ HookTry \/ HookStageA \/ HookAfterA \/ HookAfterB
    \/ HookRotate \/ HookVerify \/ HookRetry
    \/ E2Entry \/ E2Rot
    \/ HookExcept \/ SolveRaises

Next ==
    \/ \E size \in Sizes : Generate(size)
    \/ ScrambleStep
    \/ GenerateReturn
    \/ \E size \in Sizes :
         \E flat \in FixtureFlats(size) \cup BadLengthFlats(size) : FromFlat(size, flat)
    \/ CallSolve
    \/ CallHint
    \/ SolverStep
    \/ SolveReturn
    \/ HintReturn
    \/ ReplayStep
    \/ ReplayEnd

Spec == Init /\ [][Next]_vars

\* ------------------------------------------- enumeration of all boards
\* Every board of a size, enumerated from the solved board by legal blank
\* moves (GameGenerator._swap with an in-grid neighbour) and, from the
\* fixture generator's tile swap of the solved board, the rest.  After each
\* step the harness calls Solver.is_solvable on the board; ret holds the
\* verdict.  origin is "moves" while only legal moves were made.
ReachSizes == {2, 3, 4}

OracleOutcome(b) == [kind |-> "bool", value |-> is_solvable(b)]

InitReach ==
    /\ pc = "reach"
    /\ \E size \in ReachSizes : board = solved(size)
    /\ board0 = None
    /\ origin = "moves"
    /\ shuffles = 0
    /\ prev_pos = None
    /\ api = "is_solvable"
    /\ wb = None
    /\ fz = None
    /\ o = <<>>
    /\ trial = <<>>
    /\ stack = <<>>
    /\ pending = <<>>
    /\ pout = "o"
    /\ errs = {}
    /\ ret = OracleOutcome(board)
    /\ hintRet = NoRet
    /\ replay = NoReplay
    /\ visited = {}
    /\ heap = None

\* A legal blank move; the move count is kept only where it bounds the walk.
ReachMove ==
    /\ pc = "reach"
    /\ board.size >= 4 => shuffles < MaxReachDepth
    /\ LET nb == get_neighbors(board)
       IN \E k \in 1..Len(nb) : board' = swap(board, nb[k])
    /\ shuffles' = IF board.size >= 4 THEN shuffles + 1 ELSE 0
    /\ ret' = OracleOutcome(board')
    /\ UNCHANGED <<pc, board0, origin, prev_pos, api, sessVars, hintRet, replay, visited, heap>>

\* _generate_edge_cases_for_size: two tiles of the solved board exchanged
\* (_swap_positions, corner BR, direction H).
ReachSwap ==
    /\ pc = "reach"
    /\ origin = "moves"
    /\ board = solved(board.size)
    /\ board.size >= 3
    /\ LET n == board.size
       IN board' = apply_swap(board, <<n - 1, n - 3>>, <<n - 1, n - 2>>)
    /\ origin' = "swapped"
    /\ ret' = OracleOutcome(board')
    /\ UNCHANGED <<pc, board0, shuffles, prev_pos, api, sessVars, hintRet, replay, visited, heap>>

\* _generate_edge_cases_for_size on a 2x2 board: corner TL, direction H.
ReachSwap2 ==
    /\ pc = "reach"
    /\ origin = "moves"
    /\ board = solved(2)
    /\ board' = apply_swap(board, <<0, 0>>, <<0, 1>>)
    /\ origin' = "swapped"
    /\ ret' = OracleOutcome(board')
    /\ UNCHANGED <<pc, board0, shuffles, prev_pos, api, sessVars, hintRet, replay, visited, heap>>

NextReach == ReachMove \/ ReachSwap \/ ReachSwap2

SpecReach == InitReach /\ [][NextReach]_vars

\* -------------------------------------------- specification: hint loop
\* The CLI's _apply_hint after Solver.hint has returned a direction:
\* game.move(hint) on the same board; the player may then ask again.
ApplyHint ==
    /\ pc = "done"
    /\ api = "hint"
    /\ hintRet.kind = "value"
    /\ hintRet.value # None
    /\ LET r == GamePlayMove([board |-> board, moves |-> replay.moves], hintRet.value)
       IN /\ board' = r.game.board
          /\ replay' = [replay EXCEPT !.moves = Min(r.game.moves, MaxHintMoves)]
    /\ pc' = "ready"
    /\ wb' = None
    /\ fz' = None
    /\ o' = <<>>
    /\ trial' = <<>>
    /\ stack' = <<>>
    /\ pending' = <<>>
    /\ pout' = "o"
    /\ errs' = {}
    /\ ret' = NoRet
    /\ hintRet' = NoRet
    /\ visited' = visited \cup {board}
    /\ UNCHANGED <<board0, origin, genVars, api, heap>>

\* The boards a hint loop is started on.
HintStarts(n) == FixtureFlats(n)

NextHint ==
    \/ \E size \in Sizes : \E flat \in HintStarts(size) : FromFlat(size, flat)
    \/ CallHint
    \/ SolverStep
    \/ SolveReturn
    \/ HintReturn
    \/ ApplyHint

SpecHint == Init /\ [][NextHint]_vars

\* ----------------------------------------- specification: generator alone
\* GameGenerator.generate called on its own, for every size, with the longer
\* stand-in for num_shuffles.
InitGen ==
    /\ pc = "new"
    /\ board = None
    /\ board0 = None
    /\ origin = None
    /\ shuffles = 0
    /\ prev_pos = None
    /\ api = "generate"
    /\ wb = None
    /\ fz = None
    /\ o = <<>>
    /\ trial = <<>>
    /\ stack = <<>>
    /\ pending = <<>>
    /\ pout = "o"
    /\ errs = {}
    /\ ret = NoRet
    /\ hintRet = NoRet
    /\ replay = NoReplay
    /\ visited = {}
    /\ heap = None

NextGen ==
    \/ \E size \in Sizes : Generate(size)
    \/ ScrambleStep
    \/ GenerateReturn

SpecGen == InitGen /\ [][NextGen]_vars

\* ================================================================ claims
\* A board in the sense of the data model: every value of 0..n*n-1 occurs in
\* the tiles (hence once each) and blank_pos is the cell that holds 0.
WellFormed(b) ==
    /\ {b.tiles[r][c] : r, c \in 0..(b.size - 1)} = Cells(b.size)
    /\ b.tiles[b.blank_pos[1]][b.blank_pos[2]] = 0

\* Solver.solve was called on a solvable, unsolved board.
SolveCase ==
    /\ api = "solve"
    /\ WellFormed(board0)
    /\ is_solvable(board0)
    /\ ~is_solved(board0)

\* The 3x3 board [[1,2,3],[4,5,6],[7,0,8]].
OneMoveFlat == [Goal(3) EXCEPT ![7] = 0, ![8] = 8]

\* C1: on a solvable, unsolved board Solver.solve returns a non-empty list of
\* Direction values, and the test's replay of the whole list with
\* GamePlay.move, from the input board, ends in a board that is_solved.
C1_SolveSolves ==
    (pc = "done" /\ SolveCase) =>
        /\ ret.kind = "list"
        /\ Len(ret.moves) > 0
        /\ \A k \in 1..Len(ret.moves) : ret.moves[k] \in Direction
        /\ replay.idx = Len(ret.moves)
        /\ replay.won
        /\ is_solved(board)

\* The replay of the solution of [[1,2,3],[4,5,6],[7,0,8]] has ended in the
\* goal arrangement.
C1_Witness ==
    /\ pc = "done"
    /\ SolveCase
    /\ board0 = from_flat(3, OneMoveFlat)
    /\ Len(ret.moves) > 0
    /\ board = solved(3)

\* C2: on a solvable, unsolved board every move of the returned list is legal
\* when it is replayed: each GamePlay.move call returns True.
C2_MovesLegal ==
    (pc \in {"replay", "done"} /\ SolveCase) => replay.ok

\* A replay of a 4x4 solution that has applied more than twenty moves.
C2_Witness ==
    /\ pc = "replay"
    /\ SolveCase
    /\ board0.size = 4
    /\ replay.idx > 20
    /\ replay.ok

\* The 3x3 board [[1,2,3],[4,5,6],[8,7,0]].
SwappedPairFlat == [Goal(3) EXCEPT ![6] = 8, ![7] = 7]

EmptyList == [kind |-> "list", moves |-> <<>>]
NoneValue == [kind |-> "value", value |-> None]

\* C3: on a board for which is_solvable is false, Solver.solve (called by the
\* test or by hint) returns the empty list, and no exception was raised.
C3_UnsolvableEmpty ==
    (pc \in {"returned", "replay", "done"} /\ ~is_solvable(board0)) =>
        /\ ret = EmptyList
        /\ errs = {}

\* Solver.solve has returned on [[1,2,3],[4,5,6],[8,7,0]].
C3_Witness ==
    /\ pc = "returned"
    /\ api = "solve"
    /\ board0 = from_flat(3, SwappedPairFlat)
    /\ ~is_solvable(board0)
    /\ ret = EmptyList

\* C4: for the goal board of every size Solver.solve returns the empty list
\* and Solver.hint returns None.
C4_GoalBoard ==
    (pc \in {"returned", "done"} /\ board0 = solved(board0.size)) =>
        /\ api = "solve" => ret = EmptyList
        /\ (api = "hint" /\ pc = "done") => hintRet = NoneValue

\* Solver.hint has returned on the 4x4 goal board.
C4_Witness ==
    /\ pc = "done"
    /\ api = "hint"
    /\ board0 = solved(4)
    /\ board0 = from_flat(4, Goal(4))
    /\ hintRet = NoneValue

\* C7: when the call of Solver.solve inside Solver.hint returns a non-empty
\* list, hint returns its first element; hint returns None when the board is
\* solved or unsolvable.
C7_HintIsFirstMove ==
    (pc = "done" /\ api = "hint") =>
        /\ (ret # NoRet /\ ret.kind = "list" /\ ret.moves # <<>>) =>
               hintRet = [kind |-> "value", value |-> ret.moves[1]]
        /\ (is_solved(board0) \/ ~is_solvable(board0)) => hintRet = NoneValue

\* hint has returned the first move of a solution whose last move differs.
C7_Witness ==
    /\ pc = "done"
    /\ api = "hint"
    /\ ret # NoRet
    /\ ret.kind = "list"
    /\ Len(ret.moves) > 1
    /\ hintRet.value = ret.moves[1]
    /\ ret.moves[1] # ret.moves[Len(ret.moves)]

\* C8, as the claim states it: when the solve path has raised an internal
\* error, Solver.hint returns None.
C8_HintSwallowsErrors ==
    (pc = "done" /\ api = "hint" /\ ret # NoRet /\ ret.kind = "raise") =>
        hintRet = NoneValue

\* The test's replay loop applied to the first k moves of a list, from board
\* b: [ok, game] as GamePlay.move leaves them, stopping at an illegal move.
RECURSIVE ReplayPrefix(_, _, _)
ReplayPrefix(b, moves, k) ==
    IF k = 0 THEN [ok |-> TRUE, game |-> [board |-> b, moves |-> 0]]
    ELSE LET r == ReplayPrefix(b, moves, k - 1)
         IN IF r.ok THEN GamePlayMove(r.game, moves[k]) ELSE r

\* The moves recorded for the swaps made so far: the committed list, and
\* inside a hook attempt also the attempt's own list.
Recorded == IF CatchIdx > 0 THEN o \o trial ELSE o

\* C9: each swap of the solver exchanges the blank with an orthogonal
\* neighbour and records the Direction that GamePlay.move reads as the same
\* swap: at every point of a solve on a board, replaying the moves recorded
\* so far from the input board is legal move by move and gives the grid and
\* blank cell; and _dm names the direction whose GamePlay.move offset is the
\* cell the tile comes from.
C9_SwapsAreMoves ==
    (pc = "solving" /\ WellFormed(board0)) =>
        LET r == ReplayPrefix(board0, Recorded, Len(Recorded))
        IN /\ r.ok
           /\ r.game.moves = Len(Recorded)
           /\ Flatten(r.game.board) = wb.g
           /\ r.game.board.blank_pos = <<RowOf(wb.bi, N), ColOf(wb.bi, N)>>
           /\ \A d \in {-1, 1, -N, N} :
                 /\ dm(d, N) \in Direction
                 /\ MoveOffset(dm(d, N))[1] * N + MoveOffset(dm(d, N))[2] = d

\* A hook attempt of a 4x4 solve has recorded moves of all four directions
\* after committed ones.
C9_Witness ==
    /\ pc = "solving"
    /\ WellFormed(board0)
    /\ N = 4
    /\ CatchIdx > 0
    /\ Len(o) > 5
    /\ {trial[k] : k \in 1..Len(trial)} = Direction
    /\ Flatten(ReplayPrefix(board0, Recorded, Len(Recorded)).game.board) = wb.g

\* C10: at every point of a solve on a board, exactly one cell of g holds 0,
\* p[g[i]] = i for every cell i, and bi = p[0].
C10_GridInverse ==
    (pc = "solving" /\ WellFormed(board0)) =>
        /\ Cardinality({i \in Cells(N) : wb.g[i] = 0}) = 1
        /\ \A i \in Cells(N) : wb.p[wb.g[i]] = i
        /\ wb.bi = wb.p[0]

\* A hook attempt has just been rolled back by _B.restore after swaps.
C10_Witness ==
    /\ pc = "solving"
    /\ WellFormed(board0)
    /\ stack # <<>>
    /\ Top.fn = "last2"
    /\ Top.pc = "retry"
    /\ trial # <<>>
    /\ wb = Top.snap

\* The 3x3 board [[8,7,6],[5,4,3],[2,1,0]].
ReversedFlat == [i \in Cells(3) |-> 8 - i]

\* C5: Solver.is_solvable is true exactly on the boards reached from the solved
\* board by legal blank moves: true on each of them, false on each board
\* reached from the solved board with two tiles exchanged (the two families
\* are disjoint and, on 2x2 and 3x3, together hold every permutation); on 2x2
\* it accepts 12 of the 24 permutations.
C5_OracleIsReachability ==
    pc = "reach" =>
        /\ ret.value = (origin = "moves")
        /\ board = solved(2) =>
              Cardinality({f \in Perms2 : is_solvable(from_flat(2, f))}) = 12

\* The legal moves have reached [[8,7,6],[5,4,3],[2,1,0]] and the oracle
\* accepts it.
C5_Witness ==
    /\ pc = "reach"
    /\ origin = "moves"
    /\ board = from_flat(3, ReversedFlat)
    /\ ret.value

\* C6: the running count of Solver.is_solvable equals the number of pairs
\* i < j of the blank-free row-major sequence with flat[i] > flat[j]; the
\* verdict is "count even" on odd sizes and "count + (N - 1 - blank row)
\* even" on even sizes; and it is the value of the fixture generator's
\* _is_solvable.
C6_RunningCountIsInversions ==
    pc = "reach" =>
        LET n == board.size
            pairs == PairInversions(NonBlankFlat(board))
        IN /\ RunningInv(board) = pairs
           /\ ret.value = IF n % 2 = 1 THEN pairs % 2 = 0
                          ELSE (pairs + (n - 1 - board.blank_pos[1])) % 2 = 0
           /\ ret.value = fixture_is_solvable(board)

\* A 4x4 board with the blank off the bottom row, reached from the board
\* with two tiles exchanged, and a positive count.
C6_Witness ==
    /\ pc = "reach"
    /\ board.size = 4
    /\ origin = "swapped"
    /\ board.blank_pos[1] = 1
    /\ RunningInv(board) > 3
    /\ RunningInv(board) = PairInversions(NonBlankFlat(board))

\* ---------------------------------------------------------------- C11
\* The move budget of the claim: 50 * N^3.
MoveBudget(n) == 50 * n * n * n

\* C11: for a solvable board of size N the list solve returns has fewer than
\* 50 * N^3 moves; and while the solver runs (on any list from_flat accepted
\* and is_solvable passed) the sequence recorded so far is that short too.
C11_MoveBudget ==
    /\ pc = "solving" => Len(o) + Len(trial) < MoveBudget(N)
    /\ (pc = "returned" /\ api = "solve" /\ WellFormed(board0) /\ is_solvable(board0)) =>
          ret.kind = "list" /\ Len(ret.moves) < MoveBudget(N)

C11_Witness ==
    /\ pc = "returned" /\ api = "solve"
    /\ WellFormed(board0) /\ is_solvable(board0)
    /\ N = 4
    /\ ret.kind = "list"
    /\ Len(ret.moves) > 60
    /\ Len(ret.moves) < MoveBudget(N)

\* ---------------------------------------------------------------- C12
\* The 4x4 goal with tiles 14 and 15 exchanged, and with tiles 12 and 15
\* exchanged (the two neighbours of the blank).
Swap1415Flat == [Goal(4) EXCEPT ![13] = 15, ![14] = 14]
Swap1215Flat == [Goal(4) EXCEPT ![11] = 15, ![14] = 12]
PairSwapBoards == {from_flat(4, Swap1415Flat), from_flat(4, Swap1215Flat)}

\* Every cell outside the bottom-right 2x2 block of b holds its goal tile.
OnlyBlockDisplaced(b) ==
    \A r, c \in 0..(b.size - 1) :
        (r < b.size - 2 \/ c < b.size - 2) => b.tiles[r][c] = r * b.size + c + 1

\* C12 as stated: on the 4x4 goal with tiles 14 and 15 (or 12 and 15)
\* exchanged, solve returns at most 8 moves whose replay ends in the goal.
C12_PairSwapResolved ==
    (pc = "done" /\ api = "solve" /\ board0 \in PairSwapBoards) =>
        /\ ret.kind = "list"
        /\ Len(ret.moves) <= 8
        /\ replay.won
        /\ is_solved(board)

\* C12, amended: those two boards are unsolvable, solve returns [] without
\* entering the solver and the board stays unsolved; a solvable 4x4 board
\* whose cells outside the bottom-right 2x2 block are at goal reaches the
\* endgame with no move emitted, and solve returns at most 10 moves whose
\* replay ends in the goal.
C12_EndgameAlone ==
    /\ (pc \in {"returned", "replay", "done"} /\ api = "solve"
            /\ board0.size = 4 /\ board0 \in PairSwapBoards) =>
          /\ ~is_solvable(board0)
          /\ ret = EmptyList
          /\ wb = None /\ stack = <<>>
          /\ board = board0
          /\ ~is_solved(board)
    /\ (pc \in {"solving", "returned", "replay", "done"} /\ api = "solve"
            /\ board0.size = 4 /\ OnlyBlockDisplaced(board0)
            /\ WellFormed(board0) /\ is_solvable(board0)) =>
          /\ (pc = "solving" /\ stack # <<>> /\ stack[1].pc # "ret") =>
                 o = <<>> /\ trial = <<>> /\ pending = <<>>
          /\ pc # "solving" => ret.kind = "list" /\ Len(ret.moves) <= 10
          /\ pc = "done" => replay.won /\ is_solved(board)

\* Solve has returned [] on the 4x4 goal with tiles 14 and 15 exchanged and the
\* replay has ended on the unsolved board.
C12_Witness ==
    /\ pc = "done" /\ api = "solve"
    /\ board0 = from_flat(4, Swap1415Flat)
    /\ ret = EmptyList
    /\ ~replay.won

\* A 4x4 board displaced inside the block only, solved with more than 8 moves.
C12_WitnessBlock ==
    /\ pc = "done" /\ api = "solve"
    /\ board0.size = 4 /\ WellFormed(board0) /\ is_solvable(board0)
    /\ OnlyBlockDisplaced(board0)
    /\ Len(ret.moves) > 8
    /\ replay.won

\* ---------------------------------------------------------------- C13
\* C13: Solver.solve and Solver.hint never modify the Board they are given:
\* while the solver runs and when it has returned (a list, None, or an
\* exception), tiles and blank_pos of the caller's Board are those it had at
\* the call, for solved, unsolvable and solvable inputs alike; only the
\* test's replay changes the Board.
C13_BoardUntouched ==
    /\ pc \in {"solving", "returned"} => board = board0
    /\ (pc = "done" /\ api = "hint") => board = board0
    /\ (pc = "replay" /\ replay.idx = 0) => board = board0

\* Solve has returned more than thirty moves for a 4x4 board, and the Board
\* is still the unsolved one it was given.
C13_Witness ==
    /\ pc = "returned" /\ api = "solve"
    /\ board0.size = 4
    /\ ret.kind = "list" /\ Len(ret.moves) > 30
    /\ board = board0
    /\ ~is_solved(board)

\* ---------------------------------------------------------------- C14
\* One scramble iteration is a legal blank move: some GamePlay.move call on
\* the board before it returns True and gives the board after it.
ScrambleIsMove ==
    (pc = "scramble" /\ pc' = "scramble" /\ shuffles' = shuffles + 1) =>
        \E d \in Direction :
            LET r == GamePlayMove([board |-> board, moves |-> 0], d)
            IN r.ok /\ r.game.board = board'

\* What holds of the generator's board: while scramble runs it is a board
\* that is_solvable accepts, and the board generate returns is moreover not
\* the solved one.
GeneratedBoardOk ==
    (pc \in {"scramble", "ready"}) =>
        /\ WellFormed(board)
        /\ is_solvable(board)
        /\ fixture_is_solvable(board)
        /\ pc = "ready" => ~is_solved(board)

\* C14: GameGenerator.generate starts from the solved board, every scramble
\* iteration is a legal blank move, so the board it returns is reachable from
\* the solved board by legal moves; it passes is_solvable and is never the
\* solved board.
C14_GenerateSolvable == []GeneratedBoardOk /\ [][ScrambleIsMove]_vars

\* generate has returned a 3x3 board whose blank is back in the bottom-right
\* corner after the long scramble.
C14_Witness ==
    /\ pc = "ready" /\ origin = "generate" /\ api = "generate"
    /\ board.size = 3
    /\ board.blank_pos = <<2, 2>>
    /\ ~is_solved(board)
    /\ is_solvable(board)

\* A scramble has ended on the solved board: generate is about to start over.
C14_RetryCase ==
    /\ pc = "scramble" /\ api = "generate"
    /\ shuffles = NumShuffles(board.size)
    /\ is_solved(board)
    /\ board.size = 3

\* ---------------------------------------------------------------- C15
\* The cell whose tile a direction slides: UP the tile below the blank, DOWN
\* the tile above it, LEFT the tile to its right, RIGHT the tile to its left.
SlidingCell(b, d) ==
    LET br == b.blank_pos[1]
        bc == b.blank_pos[2]
    IN IF d = UP THEN <<br + 1, bc>>
       ELSE IF d = DOWN THEN <<br - 1, bc>>
       ELSE IF d = LEFT THEN <<br, bc + 1>>
       ELSE <<br, bc - 1>>

\* C15: GamePlay.move returns False and leaves tiles, blank_pos and the move
\* counter unchanged exactly when the blank's neighbour in the implied
\* direction is outside the grid; otherwise it exchanges that tile with the
\* blank, leaves every other cell alone, adds one to the counter and returns
\* True.
C15_MoveContract ==
    (pc \in {"ready", "replay"}) =>
        \A d \in Direction :
            LET g0 == [board |-> board, moves |-> replay.moves]
                r == GamePlayMove(g0, d)
                t == SlidingCell(board, d)
                bp == board.blank_pos
                n == board.size
                outside == t[1] < 0 \/ t[1] >= n \/ t[2] < 0 \/ t[2] >= n
            IN IF outside
               THEN r.ok = FALSE /\ r.game = g0
               ELSE /\ r.ok = TRUE
                    /\ r.game.moves = g0.moves + 1
                    /\ r.game.board.size = n
                    /\ r.game.board.blank_pos = t
                    /\ r.game.board.tiles[t[1]][t[2]] = board.tiles[bp[1]][bp[2]]
                    /\ r.game.board.tiles[bp[1]][bp[2]] = board.tiles[t[1]][t[2]]
                    /\ \A rr, cc \in 0..(n - 1) :
                         (<<rr, cc>> # t /\ <<rr, cc>> # bp) =>
                             r.game.board.tiles[rr][cc] = board.tiles[rr][cc]

\* In the middle of a replay the blank is in the top-left corner of a 3x3
\* board: DOWN and RIGHT are refused, UP and LEFT are applied.
C15_Witness ==
    /\ pc = "replay"
    /\ replay.moves > 2
    /\ board.size = 3
    /\ board.blank_pos = <<0, 0>>
    /\ ~GamePlayMove([board |-> board, moves |-> replay.moves], DOWN).ok
    /\ ~GamePlayMove([board |-> board, moves |-> replay.moves], RIGHT).ok
    /\ GamePlayMove([board |-> board, moves |-> replay.moves], UP).ok
    /\ GamePlayMove([board |-> board, moves |-> replay.moves], LEFT).game.moves
           = replay.moves + 1

\* ---------------------------------------------------------------- C16
\* The indices of flat that hold 0.
ZeroIndices(flat) == {i \in DOMAIN flat : flat[i] = 0}

\* What from_flat owes for one input.
FromFlatContract(size, flat) ==
    IF FlatLen(flat) # size * size
    THEN from_flat(size, flat) = "ValueError"
    ELSE LET b == from_flat(size, flat)
         IN /\ b.size = size
            /\ Flatten(b) = flat
            /\ Cardinality(ZeroIndices(flat)) = 1 =>
                  \A i \in ZeroIndices(flat) :
                      b.blank_pos = <<RowOf(i, size), ColOf(i, size)>>

\* C16: Board.from_flat(size, flat) raises ValueError when len(flat) is not
\* size * size; otherwise it builds a board whose row-major flattening is
\* flat and, for a list with exactly one zero, whose blank_pos is the zero's
\* (row, column).
C16_FromFlat ==
    /\ pc \in {"new", "rejected"} =>
          \A size \in Sizes :
              \A flat \in FixtureFlats(size) \cup BadLengthFlats(size) :
                  FromFlatContract(size, flat)
    /\ pc = "rejected" => board = None /\ errs = {"ValueError"}
    /\ (pc = "ready" /\ origin = "from_flat") =>
          /\ Flatten(board) \in FixtureFlats(board.size)
          /\ FromFlatContract(board.size, Flatten(board))
          /\ board = from_flat(board.size, Flatten(board))

\* from_flat has built the 4x4 board of the goal list with the blank and
\* tile 7 exchanged: the blank is at row 1, column 2.
C16_Witness ==
    /\ pc = "ready" /\ origin = "from_flat"
    /\ board.size = 4
    /\ Flatten(board) = [Goal(4) EXCEPT ![6] = 0, ![15] = 7]
    /\ board.blank_pos = <<1, 2>>

\* from_flat has rejected a list of the wrong length.
C16_RejectCase ==
    /\ pc = "rejected"
    /\ board = None
    /\ errs = {"ValueError"}

\* ---------------------------------------------------------------- C17
\* The goal arrangement, cell by cell: r * N + c + 1 at (r, c), 0 in the last
\* cell.
GoalArrangement(b) ==
    \A r, c \in 0..(b.size - 1) :
        b.tiles[r][c] = IF r = b.size - 1 /\ c = b.size - 1 THEN 0
                        ELSE r * b.size + c + 1

\* C17: is_solved is true exactly when the tiles are the goal arrangement,
\* and GameGenerator.solved(N) is a board for which it is true, with the
\* blank recorded in the last cell.
C17_IsSolvedIsGoal ==
    /\ (pc \in {"scramble", "ready", "replay", "done"}) =>
          (is_solved(board) <=> GoalArrangement(board))
    /\ (pc = "scramble" /\ shuffles = 0 /\ prev_pos = None) =>
          /\ board = solved(board.size)
          /\ is_solved(board)
          /\ board.blank_pos = <<board.size - 1, board.size - 1>>
    /\ pc = "new" =>
          \A n \in Sizes : is_solved(solved(n)) /\ GoalArrangement(solved(n))

\* The replay of a 4x4 solution has turned an unsolved board into one that
\* is_solved accepts.
C17_Witness ==
    /\ pc = "done" /\ api = "solve"
    /\ board.size = 4
    /\ ~is_solved(board0) /\ ~GoalArrangement(board0)
    /\ is_solved(board) /\ GoalArrangement(board)

\* generate has just built the solved 4x4 board.
C17_SolvedCase ==
    /\ pc = "scramble" /\ shuffles = 0
    /\ board = solved(4)
    /\ is_solved(board)

\* ---------------------------------------------------------------- C18
\* C18: from any solvable board, asking Solver.hint for a move and applying
\* it with GamePlay.move, again and again, reaches the solved board: the
\* hint-successor relation has no cycle, so the loop never comes back to a
\* board a hint was already applied to (hint is a function of the board: a
\* board met twice is met for ever, and the solved board never).
C18_HintLoopNoCycle ==
    (pc = "ready" /\ WellFormed(board) /\ is_solvable(board)) => board \notin visited

\* ---------------------------------------------------------------- C19
\* A solve on a board (a permutation with its blank recorded) is under way.
Solving == pc = "solving" /\ stack # <<>> /\ WellFormed(board0)

\* Cell i of the working grid holds its goal tile.
AtGoal(i) == wb.g[i] = i + 1

\* Every cell of rings 0..k-1 (row < k or column < k) holds its goal tile.
RingsDone(k) ==
    \A i \in Cells(N) : (RowOf(i, N) < k \/ ColOf(i, N) < k) => AtGoal(i)

\* The strip or resolver the orchestrator is inside of, if any.
Phase == IF Len(stack) >= 2 THEN stack[2].fn ELSE "solve"

\* What the frames say at each state of a solve: the orchestrator is the
\* bottom frame, ring off is the one being worked on and all rings before it
\* are complete; inside the row strip the column strip is still to come,
\* inside the column strip the ring's row is complete, after the column
\* strip the whole ring is; the Endgame Resolver runs only when exactly a 2x2
\* block remains and everything outside it is at goal; a 2x2 board has no
\* strip frame at all.
OrchestratorInv ==
    Solving =>
        LET s1 == stack[1]
            k == s1.off
        IN /\ s1.fn = "solve"
           /\ k >= 0 /\ k <= N - 2
           /\ RingsDone(k)
           /\ Phase \in {"solve", "row", "col", "solve_2x2"}
           /\ Phase = "row" => s1.pc = "col" /\ stack[2].off = k /\ N - k > 2
           /\ Phase = "col" =>
                 /\ s1.pc = "inc" /\ stack[2].off = k /\ N - k > 2
                 /\ \A c \in 0..(N - 1) : AtGoal(k * N + c)
           /\ (Phase = "solve" /\ s1.pc = "inc" /\ pending = <<>>) => RingsDone(k + 1)
           /\ Phase = "solve_2x2" =>
                 s1.pc = "ret" /\ stack[2].off = k /\ N - k = 2 /\ RingsDone(N - 2)
           /\ s1.pc = "ret" => N - k = 2 /\ RingsDone(N - 2)
           /\ N = 2 => \A j \in 1..Len(stack) : stack[j].fn \in {"solve", "solve_2x2"}

\* What one step may do to the orchestrator: the ring number stays or grows by
\* one; the resolver is entered from the loop test only, and once it was
\* entered the orchestrator calls nothing more; the solver returns normally
\* only from the orchestrator's return after the resolver.
OrchestratorStep ==
    (Solving /\ pc' = "solving") =>
        /\ stack' # <<>> =>
              /\ stack'[1].off \in {stack[1].off, stack[1].off + 1}
              /\ stack[1].pc = "ret" => stack'[1].pc = "ret"
              /\ (stack'[1].pc = "ret" /\ stack[1].pc # "ret") =>
                    /\ stack[1].pc = "loop" /\ Len(stack) = 1
                    /\ Len(stack') = 2 /\ stack'[2].fn = "solve_2x2"
              /\ (stack[1].pc = "ret" /\ Len(stack) = 1) => FALSE
        /\ stack' = <<>> => Len(stack) = 1 /\ stack[1].pc = "ret"

\* C19: the Orchestrator processes the rings in increasing order, the row
\* strip before the column strip in each ring, and calls the Endgame Resolver
\* exactly once, last, when exactly a 2x2 block remains (at once for N = 2);
\* when ring k is complete every cell in a row <= k or a column <= k holds its
\* goal tile.
C19_RingOrder == []OrchestratorInv /\ [][OrchestratorStep]_vars

\* On a 4x4 board ring 0 is complete and the column strip of ring 1 is at
\* work.
C19_Witness ==
    /\ Solving
    /\ N = 4
    /\ stack[1].off = 1
    /\ Phase = "col"
    /\ RingsDone(1)
    /\ o # <<>>

\* ---------------------------------------------------------------- C20
\* The cells of row r from column a to column b, and of column c from row a
\* to row b.
RowCells(r, a, b) == {r * N + c : c \in a..b}
ColCells(c, a, b) == {r * N + c : r \in a..b}

\* The cells the Strip Placer has frozen so far, read off the frames: the
\* rings before the current one, the part of the current row strip placed so
\* far (the whole row once _row has returned) and the part of the current
\* column strip placed so far (the whole column once _col has returned).
StripFrozen ==
    LET k == stack[1].off
        earlier == {i \in Cells(N) : RowOf(i, N) < k \/ ColOf(i, N) < k}
        rowPart == IF Phase = "row" THEN RowCells(k, k, stack[2].c - 1)
                   ELSE IF stack[1].pc \in {"col", "inc"} THEN RowCells(k, k, N - 1)
                   ELSE {}
        colPart == IF Phase = "col" THEN ColCells(k, k + 1, stack[2].r - 1)
                   ELSE IF stack[1].pc = "inc" THEN ColCells(k, k + 1, N - 1)
                   ELSE {}
    IN earlier \cup rowPart \cup colPart

\* C20: once the Strip Placer has frozen a cell after placing its tile, the
\* cell stays frozen and holds its goal tile (index + 1) in every later
\* state of the solve: while the blank is routed, tiles are pushed, hook
\* attempts succeed or are rolled back, and the endgame block is rotated.
C20_FrozenStayPlaced ==
    Solving => \A i \in StripFrozen : fz[i] = 1 /\ AtGoal(i)

\* A 4x4 solve is inside a hook attempt of the column strip of ring 0, with
\* the whole first row and the first cell of the column frozen, and the
\* attempt has made moves.
C20_Witness ==
    /\ Solving
    /\ N = 4
    /\ Phase = "col"
    /\ stack[1].off = 0
    /\ Len(stack) >= 3
    /\ stack[3].fn = "last2"
    /\ trial # <<>>
    /\ StripFrozen = {0, 1, 2, 3, 4}
    /\ \A i \in StripFrozen : fz[i] = 1 /\ AtGoal(i)

\* The tiles half of C20 alone.
C20_TilesOnly == Solving => \A i \in StripFrozen : AtGoal(i)

\* ------------------------------------------------ terms for C21 .. C30
\* The next step of _mto is a call of _bto (no return, no error before it, no
\* around shortcut).
MtoCallsBto ==
    /\ Running("mto", "iter")
    /\ Top.it < mto_max_steps(N)
    /\ wb.p[Top.v] # Top.gi
    /\ mto_delta(wb.p[Top.v], Top.gi, N, fz) # 0
    /\ mto_around(wb.bi, wb.p[Top.v], mto_delta(wb.p[Top.v], Top.gi, N, fz), N,
                  [fz EXCEPT ![wb.p[Top.v]] = 1]) = NoPath

\* The _bto call the next step makes, with its arguments as they are at the
\* call (blank cell, target, mask): from _mto after the ghost freeze, from the
\* hook after vb is staged, from _solve_2x2; from is "none" when the next
\* step calls no _bto.
BtoCall ==
    IF MtoCallsBto
    THEN LET ti == wb.p[Top.v]
         IN [from |-> "mto", bi |-> wb.bi,
             tgt |-> ti + mto_delta(ti, Top.gi, N, fz),
             fz |-> [fz EXCEPT ![ti] = 1]]
    ELSE IF Running("last2", "after_b")
    THEN LET hc == HookCells(Top.kind, Top.s, N)
         IN [from |-> "last2", bi |-> wb.bi, tgt |-> hc.bl_stg,
             fz |-> [fz EXCEPT ![hc.notch] = 0, ![hc.stg_b] = 1]]
    ELSE IF Running("solve_2x2", "entry") /\ ~E2Match(wb.g, Top.off, N)
    THEN [from |-> "solve_2x2", bi |-> wb.bi,
          tgt |-> Top.off * N + Top.off + N + 1, fz |-> fz]
    ELSE [from |-> "none", bi |-> 0, tgt |-> 0, fz |-> fz]

\* The swaps still to be made are those of a _bto route.
InBtoRoute ==
    /\ pc = "solving"
    /\ ret.kind = "pending"
    /\ stack # <<>>
    /\ \/ Top.fn = "mto" /\ Top.pc = "slide" /\ ~Top.done
       \/ Top.fn = "last2" /\ Top.pc = "rotate"
       \/ Top.fn = "solve_2x2" /\ Top.pc = "rot" /\ Top.k = 0

\* |row difference| + |column difference| of two cells.
Manhattan(a, b) == Abs(RowOf(a, N) - RowOf(b, N)) + Abs(ColOf(a, N) - ColOf(b, N))

\* ---------------------------------------------------------------- C21
\* The cells whose mask entry is set.
FrozenCells == {i \in Cells(N) : fz[i] # 0}

\* Control is in the orchestrator, a strip, the resolver, or in the hook
\* outside an attempt: no push, route or attempt is under way.
BetweenManeuvers ==
    /\ Solving
    /\ pending = <<>>
    /\ \/ Top.fn \in {"solve", "row", "col", "solve_2x2"}
       \/ Top.fn = "last2" /\ Top.pc \in {"entry", "try", "retry"}

\* Between maneuvers the mask holds exactly the cells the strips have frozen
\* so far: at the entry of _row(off) the rings before off, at its return
\* those and row off from column off on; at the return of _col(off) also
\* column off from row off + 1 on.
MaskIsStrips == BetweenManeuvers => (FrozenCells = StripFrozen /\ fz \in [Cells(N) -> {0, 1}])

\* From one such point to the next no frozen cell is unfrozen.
MaskGrows ==
    (BetweenManeuvers /\ BetweenManeuvers') =>
        \A i \in Cells(N) : fz[i] # 0 => fz'[i] # 0

\* The return of _row and of _col: the mask at entry (the rings before off,
\* and for _col row off too) plus exactly the cells of the strip.
StripReturn ==
    /\ (Solving /\ Running("row", "fin")) =>
          LET off == Top.off
              entry == {i \in Cells(N) : RowOf(i, N) < off \/ ColOf(i, N) < off}
          IN {i \in Cells(N) : fz'[i] # 0} = entry \cup RowCells(off, off, N - 1)
    /\ (Solving /\ Running("col", "fin")) =>
          LET off == Top.off
              entry == {i \in Cells(N) : RowOf(i, N) <= off \/ ColOf(i, N) < off}
          IN {i \in Cells(N) : fz'[i] # 0} = entry \cup ColCells(off, off + 1, N - 1)

\* C21: when _row(off) or _col(off) returns the mask is the mask at entry plus
\* exactly the cells of the strip (row off from column off, column off from
\* row off + 1): ghost, corner, staging and notch freezes are cleared, no
\* frozen cell was unfrozen, and across strips the mask only grows.
C21_MaskAfterStrip == []MaskIsStrips /\ [][MaskGrows /\ StripReturn]_vars

\* _col(0) has returned on a 4x4 board: the mask is row 0 and column 0.
C21_Witness ==
    /\ Solving
    /\ N = 4
    /\ Len(stack) = 1
    /\ stack[1].pc = "inc"
    /\ stack[1].off = 0
    /\ o # <<>>
    /\ FrozenCells = {0, 1, 2, 3, 4, 8, 12}

\* _row(0) has returned on a 3x3 board after a hook attempt that raised and
\* was rolled back: the mask is row 0.
C21_AfterRollback ==
    /\ Solving
    /\ N = 3
    /\ Len(stack) = 1
    /\ stack[1].pc = "col"
    /\ errs # {}
    /\ FrozenCells = {0, 1, 2}

\* ---------------------------------------------------------------- C22
\* The target of the _bto call whose route is under way or just finished.
RouteTarget ==
    IF Top.fn = "mto" THEN Top.ti + mto_delta(Top.ti, Top.gi, N, fz)
    ELSE IF Top.fn = "last2" THEN HookCells(Top.kind, Top.s, N).bl_stg
    ELSE Top.off * N + Top.off + N + 1

\* During a _bto route (the mask is the one of the call, no step of the route
\* writes it): every cell the blank has still to enter is unfrozen, the
\* route is a chain of neighbours from the blank's cell to the target, and
\* when no swap is left the blank is on the target.
RouteKeepsOffFrozen ==
    (Solving /\ InBtoRoute) =>
        /\ \A k \in 1..Len(pending) : fz[pending[k]] = 0
        /\ \A k \in 1..Len(pending) :
              Manhattan(IF k = 1 THEN wb.bi ELSE pending[k - 1], pending[k]) = 1
        /\ (IF pending = <<>> THEN wb.bi ELSE pending[Len(pending)]) = RouteTarget

\* One swap of a _bto route leaves the content of every frozen cell as it was.
RouteKeepsFrozenContent ==
    (Solving /\ InBtoRoute /\ pending # <<>> /\ pc' = "solving" /\ pending' = Tail(pending)) =>
        \A i \in Cells(N) : fz[i] # 0 => wb'.g[i] = wb.g[i]

\* C22, as the claim states it: when _bto returns normally the blank is on
\* the target cell, every cell the blank entered was unfrozen at call time,
\* and the content of every frozen cell is unchanged.
C22_BlankRouter == []RouteKeepsOffFrozen /\ [][RouteKeepsFrozenContent]_vars

\* The part of C22 that holds: target reached, no frozen cell entered, and
\* every frozen cell other than the one the blank starts on keeps its tile.
C22_ExceptStartCell ==
    []RouteKeepsOffFrozen
    /\ [][(Solving /\ InBtoRoute /\ pending # <<>> /\ pc' = "solving"
              /\ pending' = Tail(pending)) =>
            \A i \in Cells(N) : (fz[i] # 0 /\ i # wb.bi) => wb'.g[i] = wb.g[i]]_vars

\* ---------------------------------------------------------------- C23
\* C23, as the claim states it: while a solvable board is solved the Blank
\* Router never runs out of strategies: "_bto: no path" is not raised, in
\* strip placement, inside a hook attempt, or in the endgame.
C23_RouterNeverExhausted ==
    (pc \in {"solving", "returned", "replay", "done"}
        /\ WellFormed(board0) /\ is_solvable(board0)) =>
        "_bto: no path" \notin errs

\* What does hold: the error is raised inside hook attempts only, where the
\* hook's except clause catches it; no solve of a solvable board ends with it.
C23_CaughtInAttempt ==
    /\ (Solving /\ is_solvable(board0) /\ BtoCall.from # "none"
           /\ bto_route(BtoCall.bi, BtoCall.tgt, N, BtoCall.fz).strategy = 6) =>
          CatchIdx > 0 /\ BtoCall.from = "mto"
    /\ (pc \in {"returned", "replay", "done"} /\ api = "solve" /\ WellFormed(board0)
           /\ is_solvable(board0)) => ret.kind = "list"

\* ---------------------------------------------------------------- C24
\* The number of straight segments of the walk from cell a through path.
RECURSIVE Segments(_, _, _)
Segments(a, path, dir) ==
    IF path = <<>> THEN 0
    ELSE LET d == Head(path) - a
         IN (IF d = dir THEN 0 ELSE 1) + Segments(Head(path), Tail(path), d)

\* The step that calls _bto plans the route by strategy order: nothing when
\* the blank is on the target; the horizontal-first L-path if it is unfrozen,
\* else the vertical-first one, either of |row gap| + |column gap| cells in at
\* most two segments; the first unfrozen three-segment detour only when both
\* L-paths are blocked; a one-step escape only when no detour exists; a
\* two-step escape only when no one-step escape exists; the error otherwise.
RouteByStrategyOrder ==
    (Solving /\ BtoCall.from # "none") =>
        LET c == BtoCall
            hv == lpath(c.bi, c.tgt, N, c.fz, TRUE)
            vh == lpath(c.bi, c.tgt, N, c.fz, FALSE)
            p3 == lpath3(c.bi, c.tgt, N, c.fz)
            e1 == escape1(c.bi, c.tgt, N, c.fz)
            e2 == escape2(c.bi, c.tgt, N, c.fz)
            lpathTaken == /\ Len(pending') = Manhattan(c.bi, c.tgt)
                          /\ Segments(c.bi, pending', 0) <= 2
                          /\ errs' = errs
        IN IF c.bi = c.tgt THEN pending' = <<>> /\ errs' = errs
           ELSE IF hv # NoPath THEN pending' = hv /\ lpathTaken
           ELSE IF vh # NoPath THEN pending' = vh /\ lpathTaken
           ELSE IF p3 # NoPath
           THEN /\ pending' = p3
                /\ \E k \in 1..Len(lpath3_cands(c.bi, c.tgt, N)) :
                      p3 = lpath3_cands(c.bi, c.tgt, N)[k]
                /\ errs' = errs
           ELSE IF e1 # NoPath
           THEN /\ pending' = e1
                /\ Manhattan(c.bi, e1[1]) = 1
                /\ Tail(e1) = EscapeTail(e1[1], c.tgt, N, c.fz)
                /\ errs' = errs
           ELSE IF e2 # NoPath
           THEN /\ pending' = e2
                /\ Manhattan(c.bi, e2[1]) = 1 /\ Manhattan(e2[1], e2[2]) = 1
                /\ e2[2] # c.bi
                /\ SubSeq(e2, 3, Len(e2)) = EscapeTail(e2[2], c.tgt, N, c.fz)
                /\ errs' = errs
           ELSE pending' = <<>> /\ "_bto: no path" \in errs'

\* C24: the Blank Router's route is decided by strategy order alone: an
\* unfrozen L-path is taken when one exists, horizontal-first before
\* vertical-first, and brings the blank to the target in exactly
\* |row gap| + |column gap| moves; the three-segment detour is used only when
\* both L-paths are blocked, the one-step escape only when the detour fails
\* too, the two-step escape only after that.
C24_StrategyOrder == [][RouteByStrategyOrder]_vars

\* _bto has just planned a vertical-first L-path on a 4x4 board because the
\* horizontal-first one crosses a frozen cell; no swap of it is made yet.
C24_Witness ==
    /\ Solving /\ InBtoRoute /\ pending # <<>>
    /\ N = 4
    /\ lpath(wb.bi, RouteTarget, N, fz, TRUE) = NoPath
    /\ pending = lpath(wb.bi, RouteTarget, N, fz, FALSE)
    /\ Len(pending) = Manhattan(wb.bi, RouteTarget)
    /\ Len(pending) >= 3

\* _bto has just planned a three-segment detour: both L-paths are blocked.
C24_Detour ==
    /\ Solving /\ InBtoRoute /\ pending # <<>>
    /\ lpath(wb.bi, RouteTarget, N, fz, TRUE) = NoPath
    /\ lpath(wb.bi, RouteTarget, N, fz, FALSE) = NoPath
    /\ pending = lpath3(wb.bi, RouteTarget, N, fz)

\* _bto has just planned a one-step escape: no L-path and no detour exists.
C24_EscapeOne ==
    /\ Solving /\ InBtoRoute /\ pending # <<>>
    /\ lpath(wb.bi, RouteTarget, N, fz, TRUE) = NoPath
    /\ lpath(wb.bi, RouteTarget, N, fz, FALSE) = NoPath
    /\ lpath3(wb.bi, RouteTarget, N, fz) = NoPath
    /\ pending = escape1(wb.bi, RouteTarget, N, fz)

\* _bto has just planned a two-step escape: nothing before it gave a route.
C24_EscapeTwo ==
    /\ Solving /\ InBtoRoute /\ pending # <<>>
    /\ lpath(wb.bi, RouteTarget, N, fz, TRUE) = NoPath
    /\ lpath(wb.bi, RouteTarget, N, fz, FALSE) = NoPath
    /\ lpath3(wb.bi, RouteTarget, N, fz) = NoPath
    /\ escape1(wb.bi, RouteTarget, N, fz) = NoPath
    /\ pending = escape2(wb.bi, RouteTarget, N, fz)


\* ---------------------------------------------------------------- C25
\* The step that calls _bto plans the whole route and swaps nothing: either
\* it raises "_bto: no path" with the grid, the blank cursor, both move lists
\* and the frames as they are at the call, or it leaves a route of at most
\* 3 * N swaps to be made.
RoutePlanned ==
    (pc = "solving" /\ stack # <<>> /\ BtoCall.from # "none") =>
        /\ wb' = wb /\ o' = o /\ trial' = trial /\ stack' # <<>>
        /\ IF ret'.kind = "raising"
           THEN /\ ret'.msg = "_bto: no path"
                /\ pending' = <<>>
                /\ stack' = stack
           ELSE /\ ret' = ret
                /\ Len(pending') <= 3 * N

\* Every step of a route makes one of its swaps, so the route ends after as
\* many steps as it has swaps (or earlier, with an error of the swap).
RouteShrinks ==
    (InBtoRoute /\ pending # <<>>) =>
        \/ pending' = Tail(pending) /\ ret' = ret
        \/ pending' = <<>> /\ ret'.kind = "raising"

\* "_bto: no path" is raised by the calling step only, never after a swap of
\* the route.
ErrorBeforeAnySwap ==
    (pc = "solving" /\ ret.kind = "pending" /\ ret'.kind = "raising"
        /\ ret'.msg = "_bto: no path") =>
        /\ pending = <<>>
        /\ BtoCall.from # "none"
        /\ wb' = wb /\ o' = o /\ trial' = trial

\* C25: the Blank Router always terminates (a route of bounded length is
\* planned in one step and every later step makes one of its swaps), and
\* when it ends with its hard error no swap was made: grid, blank cursor and
\* move lists are as at the call.
C25_PlanThenMove == [][RoutePlanned /\ RouteShrinks /\ ErrorBeforeAnySwap]_vars

\* A valid solvable board on which _bto has just raised inside a hook
\* attempt that had already recorded swaps, which are all still there.
C25_Witness ==
    /\ pc = "solving"
    /\ ret.kind = "raising"
    /\ ret.msg = "_bto: no path"
    /\ WellFormed(board0)
    /\ is_solvable(board0)
    /\ CatchIdx > 0
    /\ trial # <<>>
    /\ wb # stack[CatchIdx].snap


\* ---------------------------------------------------------------- C26
\* The frame of a _mto call that has chosen delta and frozen the tile's
\* cell: the blank is being routed or stands ready for the slide.
InPush == pc = "solving" /\ ret.kind = "pending" /\ stack # <<>>
          /\ Top.fn = "mto" /\ Top.pc = "slide"

\* delta comes from one of the two priority branches of _mto: the column
\* gap with the cell towards it unfrozen, else the row gap likewise.
OnPriorityAxis(ti, gi, n, mask) ==
    LET tr == RowOf(ti, n)
        tc == ColOf(ti, n)
        gr == RowOf(gi, n)
        gc == ColOf(gi, n)
    IN \/ tc # gc /\ mask[ti + (IF tc < gc THEN 1 ELSE -1)] = 0
       \/ tr # gr /\ mask[ti + (IF tr < gr THEN n ELSE -n)] = 0

\* While the tile's cell is ghost-frozen the tile stands on it.
GhostHoldsTile ==
    (Solving /\ InPush) => (wb.p[Top.v] = Top.ti /\ fz[Top.ti] = 1 /\ wb.bi # Top.ti)

\* No swap of the blank's routing (full route or around shortcut) moves
\* the tile.
RouteLeavesTile ==
    (Solving /\ InPush /\ pending # <<>>) =>
        /\ wb'.p[Top.v] = wb.p[Top.v]
        /\ \A k \in 1..Len(pending) : pending[k] # Top.ti

\* The slide that ends an iteration: the blank stands on ti + delta, the
\* tile goes from ti to ti + delta, the blank is left on ti, and a delta of
\* the priority axis brings the tile one step nearer (Manhattan) to gi.
SlideAdvances ==
    (Solving /\ Running("mto", "slide")) =>
        LET f == Top
            ti == f.ti
            mask == [fz EXCEPT ![ti] = 0]
            delta == mto_delta(ti, f.gi, N, mask)
        IN /\ delta # 0
           /\ wb.bi = ti + delta
           /\ wb'.p[f.v] = ti + delta
           /\ wb'.bi = ti
           /\ Manhattan(wb'.p[f.v], ti) = 1
           /\ \A w \in 1..(N * N - 1) : w # f.v => wb'.p[w] = wb.p[w]
           /\ stack' = WithTop([f EXCEPT !.pc = "iter", !.it = f.it + 1])
           /\ OnPriorityAxis(ti, f.gi, N, mask) =>
                 Manhattan(wb'.p[f.v], f.gi) = Manhattan(ti, f.gi) - 1

\* C26: every _mto iteration that does not return moves the tile exactly one
\* cell, from ti to ti + delta, and leaves the blank on ti; while ti is
\* ghost-frozen the blank's routing never moves the tile; a delta chosen on
\* the priority axis reduces the tile's Manhattan distance to gi by 1.
C26_OneCellPerIteration ==
    []GhostHoldsTile /\ [][RouteLeavesTile /\ SlideAdvances]_vars

\* A push of more than one iteration: the tile has just been slid (the blank
\* stands on the cell it left) and is not home yet.
C26_Witness ==
    /\ Solving
    /\ Running("mto", "iter")
    /\ Top.it > 0
    /\ wb.bi = Top.ti
    /\ wb.p[Top.v] # Top.gi
    /\ Manhattan(wb.p[Top.v], Top.ti) = 1

\* The around shortcut has been walked: the blank went from behind the tile
\* to the cell in front of it in four swaps and the tile has not moved.
C26_AroundWalked ==
    /\ Solving
    /\ Running("mto", "slide")
    /\ Top.done
    /\ wb.p[Top.v] = Top.ti


\* ---------------------------------------------------------------- C27
\* A solve of a valid solvable board is under way.
SolvingSolvable == Solving /\ is_solvable(board0)

\* No _mto call is cut short: no exception is in flight in a _mto frame, the
\* iteration counter is below the cap, and neither error of _mto was raised.
PusherNotAborted ==
    (pc = "solving" /\ stack # <<>> /\ Top.fn = "mto" /\ SolvingSolvable) =>
        /\ ret.kind = "pending"
        /\ Top.it < mto_max_steps(N)

\* Neither "_mto max iterations" nor "_mto stuck" is raised.
NoCapNoStuck ==
    (pc \in {"solving", "returned", "replay", "done"} /\ WellFormed(board0)
        /\ is_solvable(board0)) =>
        /\ "_mto max iterations" \notin errs
        /\ "_mto stuck" \notin errs

\* A _mto frame leaves the stack only by its return, with the tile on gi.
PusherReturnsHome ==
    (pc = "solving" /\ stack # <<>> /\ Top.fn = "mto" /\ SolvingSolvable
        /\ (Len(stack') < Len(stack) \/ pc' # "solving")) =>
        /\ ret.kind = "pending"
        /\ wb.p[Top.v] = Top.gi
        /\ wb' = wb
        /\ stack' = Popped

\* C27: every _mto call of a solve of a solvable board returns with the tile
\* on its target cell within the cap of 4 * N * N iterations; neither
\* "_mto max iterations" nor "_mto stuck" is raised, inside or outside a
\* hook attempt.
C27_PusherArrives ==
    []PusherNotAborted /\ []NoCapNoStuck /\ [][PusherReturnsHome]_vars

\* What the solver does keep: neither error of _mto is raised, no call uses
\* more than 2 * N iterations, a returning call has its tile on gi, and a
\* call that does not return is ended by "_bto: no path" or a KeyError
\* inside a hook attempt.
C27_NeverCapNeverStuck ==
    /\ []NoCapNoStuck
    /\ []((pc = "solving" /\ stack # <<>> /\ Top.fn = "mto" /\ SolvingSolvable) =>
            /\ Top.it <= 2 * N
            /\ ret.kind = "raising" =>
                  (CatchIdx > 0 /\ ret.msg \in {"_bto: no path", "KeyError"}))
    /\ [][(pc = "solving" /\ stack # <<>> /\ Top.fn = "mto" /\ SolvingSolvable
            /\ ret.kind = "pending" /\ Len(stack') < Len(stack)) =>
            (wb.p[Top.v] = Top.gi /\ wb' = wb /\ stack' = Popped)]_vars

\* A _mto call of a solvable board's solve ended by an exception with its
\* tile away from the target cell.
C27_Aborted ==
    /\ pc = "solving" /\ stack # <<>> /\ Top.fn = "mto"
    /\ SolvingSolvable
    /\ ret.kind = "raising"
    /\ wb.p[Top.v] # Top.gi


\* ---------------------------------------------------------------- C28
\* Inside a _mto call that has started an iteration the mask is the mask of
\* the call (fz0), plus the ghost freeze of the tile's cell (unfrozen at the
\* call) from the choice of delta to the slide.
MaskDuringPush ==
    (Solving /\ ret.kind = "pending" /\ Top.fn = "mto") =>
        /\ (Top.pc = "iter" /\ Top.it > 0) => fz = Top.fz0
        /\ Top.pc = "slide" =>
              /\ Top.fz0[Top.ti] = 0
              /\ fz = [Top.fz0 EXCEPT ![Top.ti] = 1]

\* The slide clears the ghost freeze and writes no other mask entry.
SlideClearsGhost ==
    (Solving /\ Running("mto", "slide")) =>
        (ret'.kind = "pending" => fz' = [fz EXCEPT ![Top.ti] = 0])

\* The return of _mto writes no mask entry: the caller finds the mask it
\* passed.
ReturnKeepsMask ==
    (Solving /\ Running("mto", "iter") /\ wb.p[Top.v] = Top.gi
        /\ Top.it < mto_max_steps(N)) =>
        /\ stack' = Popped
        /\ fz' = fz
        /\ Top.it > 0 => fz = Top.fz0

\* C28: on normal return from _mto the frozen mask is the mask at call time:
\* the ghost freeze of each iteration is cleared before the slide and no
\* other mask entry is written.
C28_PusherKeepsMask ==
    []MaskDuringPush /\ [][SlideClearsGhost /\ ReturnKeepsMask]_vars

\* A _mto call about to return after several iterations, under a mask that
\* has frozen cells.
C28_Witness ==
    /\ Solving
    /\ Running("mto", "iter")
    /\ Top.it > 1
    /\ wb.p[Top.v] = Top.gi
    /\ FrozenCells # {}
    /\ fz = Top.fz0


\* ---------------------------------------------------------------- C29
\* The hook has just been called and both tiles of the strip's end stand on
\* their goal cells: (r, last - 1) and (r, last) for a row, (last - 1, c) and
\* (last, c) for a column.
HookCalledOnPlaced ==
    /\ Solving
    /\ Running("last2", "entry")
    /\ LET f == Top
           last == N - 1
       IN IF f.kind = "row"
          THEN wb.p[f.va] = f.s * N + last - 1 /\ wb.p[f.vb] = f.s * N + last
          ELSE wb.p[f.va] = (last - 1) * N + f.s /\ wb.p[f.vb] = last * N + f.s

\* Such a call returns in its first step and changes nothing.
PlacedHookReturns ==
    HookCalledOnPlaced =>
        /\ stack' = Popped
        /\ wb' = wb
        /\ fz' = fz
        /\ o' = o
        /\ trial' = trial
        /\ pending' = <<>>
        /\ errs' = errs
        /\ ret' = ret

\* C29: if both last-two tiles of a strip are already on their goal cells,
\* _last2_row / _last2_col returns at once: no move is emitted and the grid,
\* the blank cursor and the frozen mask are unchanged.
C29_PlacedHookIsNoOp == [][PlacedHookReturns]_vars

\* _last2_row is called with both tiles placed, after moves were emitted.
C29_Witness ==
    /\ HookCalledOnPlaced
    /\ Top.kind = "row"
    /\ o # <<>>
    /\ ~is_solved(board0)

\* _last2_col is called with both tiles placed.
C29_ColumnCase ==
    /\ HookCalledOnPlaced
    /\ Top.kind = "col"
    /\ ~is_solved(board0)


\* ---------------------------------------------------------------- C30
\* The start of an attempt takes the snapshot of the grid, the blank cursor
\* and the mask as they are, and changes none of them.
AttemptSnapshots ==
    (Solving /\ Running("last2", "try") /\ Top.attempt < HookAttempts) =>
        LET h == stack'[Len(stack)]
        IN /\ h.snap = snap(wb)
           /\ h.fz_snap = fz
           /\ wb' = wb /\ fz' = fz /\ o' = o

\* Inside an attempt the snapshot and the output list stay as they are; the
\* attempt ends either by the commit (the hook returns, the trial list is
\* appended to the output list) or by the rollback (the hook goes on to the
\* retry push with the grid, the blank cursor and the mask of the snapshot
\* and the output list untouched).
AttemptEnds ==
    (Solving /\ CatchIdx > 0) =>
        LET h == stack[CatchIdx]
        IN IF CatchIdx' = CatchIdx
           THEN /\ stack'[CatchIdx].snap = h.snap
                /\ stack'[CatchIdx].fz_snap = h.fz_snap
                /\ o' = o
           ELSE \/ /\ Running("last2", "verify")
                   /\ stack' = Popped
                   /\ o' = o \o trial
                \/ /\ Len(stack') = CatchIdx
                   /\ stack'[CatchIdx] = [h EXCEPT !.pc = "retry"]
                   /\ snap(wb') = h.snap
                   /\ fz' = h.fz_snap
                   /\ o' = o

\* The output list is only ever appended to.
OutputAppendOnly ==
    (Solving /\ pc' = "solving") =>
        (Len(o) <= Len(o') /\ SubSeq(o', 1, Len(o)) = o)

\* After a failed attempt, and at the start of every attempt, the grid is
\* the snapshot's and is what the output list gives when replayed from the
\* input board.
RolledBack ==
    (Solving /\ (Running("last2", "retry") \/ Running("last2", "try"))) =>
        LET r == ReplayPrefix(board0, o, Len(o))
        IN /\ Top.pc = "retry" => (snap(wb) = Top.snap /\ fz = Top.fz_snap)
           /\ r.ok
           /\ Flatten(r.game.board) = wb.g
           /\ r.game.board.blank_pos = <<RowOf(wb.bi, N), ColOf(wb.bi, N)>>

\* C30: a failed hook attempt is rolled back completely: g, p, the blank
\* cursor and the mask are restored to their values at the start of the
\* attempt, none of the attempt's moves reach the output list, which is only
\* ever appended to, and outside an attempt the output list replayed from
\* the input board gives the live grid.
C30_AttemptRollback ==
    []RolledBack /\ [][AttemptSnapshots /\ AttemptEnds /\ OutputAppendOnly]_vars

\* An attempt that had made swaps after committed moves has failed by an
\* exception and is rolled back: the grid is the snapshot's again and the
\* attempt's moves are not in the output list.
C30_Witness ==
    /\ Solving
    /\ Running("last2", "retry")
    /\ errs # {}
    /\ trial # <<>>
    /\ o # <<>>
    /\ fz = Top.fz_snap
    /\ Flatten(ReplayPrefix(board0, o, Len(o)).game.board) = wb.g


\* ---------------------------------------------------------------- C31
\* The row hook is about to rotate (after its _bto call has ended).
RowHookAtRotate == Solving /\ Running("last2", "rotate") /\ Top.kind = "row"

\* The last n entries of a sequence.
LastOf(s, n) == SubSeq(s, Len(s) - n + 1, Len(s))

\* At the rotation of the row hook va stands on the corner (r, last), vb on
\* the cell below it and the blank on the cell left of vb.
StagedAtRotate ==
    RowHookAtRotate =>
        LET r == Top.s
            last == N - 1
        IN /\ wb.p[Top.va] = r * N + last
           /\ wb.p[Top.vb] = (r + 1) * N + last
           /\ wb.bi = (r + 1) * N + last - 1

\* The grid after the swaps of a sequence of cells, made in order.
RECURSIVE SwapsFrom(_, _)
SwapsFrom(w, cells) ==
    IF cells = <<>> THEN w ELSE SwapsFrom(sw_grid(w, Head(cells)), Tail(cells))

\* C31, as the claim states it: the rotation of the row hook has 2 moves,
\* after which both tiles stand on their goal cells.
C31_TwoMoveRotation ==
    [][RowHookAtRotate =>
          LET r == Top.s
              last == N - 1
              after == SwapsFrom(wb, pending')
          IN /\ Len(pending') = 2
             /\ after.p[Top.va] = r * N + last - 1
             /\ after.p[Top.vb] = r * N + last]_vars

\* The rotation of the row hook is the three swaps notch, corner, cell below
\* the corner (blank up, right, down), which put va on (r, last - 1) and vb
\* on (r, last) and leave every tile outside the four cells where it is; its
\* first two swaps alone leave vb below the corner.
RotationPlaces ==
    RowHookAtRotate =>
        LET r == Top.s
            last == N - 1
            notch == r * N + last - 1
            corner == r * N + last
            below == (r + 1) * N + last
            after == SwapsFrom(wb, pending')
            two == SwapsFrom(wb, SubSeq(pending', 1, 2))
        IN /\ pending' = <<notch, corner, below>>
           /\ after.p[Top.va] = notch
           /\ after.p[Top.vb] = corner
           /\ after.bi = below
           /\ after.p[wb.g[notch]] = below - 1
           /\ \A i \in Cells(N) \ {notch, corner, below, below - 1} : after.g[i] = wb.g[i]
           /\ two.p[Top.va] = notch /\ two.p[Top.vb] = below
           /\ wb' = wb

\* After the rotation the row hook finds both tiles placed, the blank below
\* the corner, and the three moves of the rotation at the end of the
\* attempt's list.
RotatedIsPlaced ==
    (Solving /\ Running("last2", "verify") /\ Top.kind = "row") =>
        LET r == Top.s
            last == N - 1
        IN /\ wb.p[Top.va] = r * N + last - 1
           /\ wb.p[Top.vb] = r * N + last
           /\ wb.bi = (r + 1) * N + last
           /\ Len(trial) >= 3
           /\ LastOf(trial, 3) = <<dm(-N, N), dm(1, N), dm(N, N)>>

\* C31 (amended): in the row hook, once va is staged on the corner and vb on
\* the cell below it, with the blank left of vb, a fixed rotation of 3 moves
\* puts both tiles on their goal cells.
C31_ThreeMoveRotation ==
    []StagedAtRotate /\ []RotatedIsPlaced /\ [][RotationPlaces]_vars

\* The row hook of a 3x3 solve has rotated: both tiles are placed and the
\* attempt's list ends with the rotation.
C31_Witness ==
    /\ Solving
    /\ Running("last2", "verify")
    /\ Top.kind = "row"
    /\ wb.p[Top.va] = Top.s * N + N - 2
    /\ wb.p[Top.vb] = Top.s * N + N - 1
    /\ Len(trial) > 3
    /\ LastOf(trial, 3) = <<dm(-N, N), dm(1, N), dm(N, N)>>


\* ---------------------------------------------------------------- C32
\* The four cells of the 2x2 block at ring off.
BlockCells(off) ==
    LET tl == off * N + off
    IN {tl, tl + 1, tl + N, tl + N + 1}

\* _solve_2x2 is running in the solve of a valid solvable board.
ResolverRuns ==
    /\ pc = "solving"
    /\ stack # <<>>
    /\ Top.fn = "solve_2x2"
    /\ ret.kind = "pending"
    /\ SolvingSolvable

\* While the resolver runs the blank is inside the block, every swap still
\* to be made is inside it, every cell outside it holds its goal tile, and
\* in the rotation loop with no swap outstanding the blank is on the
\* bottom-right cell and at most two rotations were made.
ResolverInBlock ==
    ResolverRuns =>
        LET off == Top.off
            br == off * N + off + N + 1
        IN /\ off = N - 2
           /\ wb.bi \in BlockCells(off)
           /\ \A k \in 1..Len(pending) : pending[k] \in BlockCells(off)
           /\ \A i \in Cells(N) \ BlockCells(off) : wb.g[i] = i + 1
           /\ (Top.pc = "rot" /\ pending = <<>>) => (wb.bi = br /\ Top.k <= 2)

\* The resolver returns as soon as the block matches the goal pattern and
\* only then: at entry and before each rotation a match ends it with no
\* further swap, a mismatch before the first or the second rotation starts
\* a rotation of four swaps (bottom-left, top-left, top-right,
\* bottom-right), and after two rotations the block matches.
ResolverStops ==
    (ResolverRuns /\ pending = <<>>) =>
        LET off == Top.off
            tl == off * N + off
            match == wb.g[tl] = tl + 1 /\ wb.g[tl + 1] = tl + 2
                        /\ wb.g[tl + N] = tl + N + 1
        IN IF match
           THEN /\ stack' = Popped
                /\ wb' = wb /\ o' = o /\ pending' = <<>>
                /\ \A i \in Cells(N) : wb.g[i] = (IF i = N * N - 1 THEN 0 ELSE i + 1)
           ELSE /\ stack' # Popped
                /\ Top.pc = "rot" =>
                      /\ Top.k < 2
                      /\ pending' = <<tl + N, tl, tl + 1, tl + N + 1>>
                      /\ stack' = WithTop([Top EXCEPT !.k = Top.k + 1])

\* C32: whenever _solve_2x2 runs in the solve of a solvable board the blank
\* lies inside the remaining 2x2 block, and after the blank is routed to the
\* block's bottom-right cell at most two rotations of four slides bring the
\* block to the goal pattern; the resolver stops as soon as the pattern
\* matches.
C32_EndgameResolves == []ResolverInBlock /\ [][ResolverStops]_vars

\* The resolver has made two rotations on a solvable board and the block
\* matches.
C32_Witness ==
    /\ ResolverRuns
    /\ Top.pc = "rot"
    /\ pending = <<>>
    /\ Top.k = 2
    /\ E2Match(wb.g, Top.off, N)
    /\ Len(o) >= 8

\* One rotation was enough: the resolver is about to return with k = 1.
C32_OneRotation ==
    /\ ResolverRuns
    /\ Top.pc = "rot"
    /\ pending = <<>>
    /\ Top.k = 1
    /\ E2Match(wb.g, Top.off, N)
    /\ N = 4


\* ---------------------------------------------------------------- C33
\* _solve_2x2 has made its two rotations and the block does not match the
\* goal pattern.
ResolverExhausted ==
    /\ Running("solve_2x2", "rot")
    /\ Top.k = 2
    /\ LET tl == Top.off * N + Top.off
       IN ~(wb.g[tl] = tl + 1 /\ wb.g[tl + 1] = tl + 2 /\ wb.g[tl + N] = tl + N + 1)

\* C33: if the 2x2 block still does not match the goal pattern after the two
\* rotations, _solve_2x2 raises an error instead of returning normally.
C33_MismatchRaises ==
    [][ResolverExhausted =>
          (ret'.kind = "raising" /\ errs' # errs /\ stack' # Popped)]_vars

\* What the resolver does then: it returns to _solve as after a success, no
\* error is raised, and Solver.solve goes on to return the move list.
C33_MismatchReturns ==
    [][ResolverExhausted =>
          (stack' = Popped /\ ret' = ret /\ errs' = errs /\ wb' = wb /\ o' = o)]_vars

\* Solver.solve has returned a list of moves without error and the board
\* it worked on is not in the goal pattern in its last 2x2 block.
C33_ReturnedUnsolved ==
    /\ pc = "returned"
    /\ ret.kind = "list"
    /\ Len(ret.moves) = 8
    /\ errs = {}
    /\ LET tl == (N - 2) * N + (N - 2)
       IN wb.g[tl] # tl + 1


\* ------------------------------- specification: _B and its snapshots
\* A _B with its lists as objects: heap.objs holds the list objects, a
\* reference is an index into it. heap.b holds the slots g and p of the _B
\* (references) and bi; heap.snaps the tuples snap() has returned (two
\* references and an int). History: heap.taken[k] is the value of g, p and
\* bi when snapshot k was taken, heap.op the last call, heap.restored
\* whether restore has been called, heap.swaps the number of sw calls.
SnapBoards == {solved(2), solved(3)}

\* The value of the live grid: the lists the slots refer to, and bi.
LiveGrid ==
    [g |-> heap.objs[heap.b.g], p |-> heap.objs[heap.b.p], bi |-> heap.b.bi]

\* The value of snapshot k: the lists its tuple refers to, and its int.
SnapshotValue(k) ==
    [g |-> heap.objs[heap.snaps[k].g], p |-> heap.objs[heap.snaps[k].p],
     bi |-> heap.snaps[k].bi]

\* _B(board): two new lists g and p.
InitSnap ==
    /\ pc = "snap"
    /\ board \in SnapBoards
    /\ board0 = board
    /\ origin = None
    /\ shuffles = 0
    /\ prev_pos = None
    /\ api = "snap"
    /\ wb = None
    /\ fz = None
    /\ o = <<>>
    /\ trial = <<>>
    /\ stack = <<>>
    /\ pending = <<>>
    /\ pout = "o"
    /\ errs = {}
    /\ ret = NoRet
    /\ hintRet = NoRet
    /\ replay = NoReplay
    /\ visited = {}
    /\ heap = [objs |-> <<B_init(board).g, B_init(board).p>>,
               b |-> [g |-> 1, p |-> 2, bi |-> B_init(board).bi],
               snaps |-> <<>>, taken |-> <<>>,
               op |-> [name |-> "init", k |-> 0], restored |-> FALSE, swaps |-> 0]

snapFrame == <<pc, board, board0, origin, shuffles, prev_pos, api, wb, fz, trial,
               stack, pending, pout, errs, ret, hintRet, replay, visited>>

\* b.sw(ni, o) for a neighbour ni of the blank: the entries of the lists
\* self.g and self.p refer to are written in place, bi is rebound.
B_sw(ni) ==
    /\ pc = "snap"
    /\ heap.swaps < MaxSnapSwaps
    /\ \E k \in 1..Len(adj(heap.b.bi, N)) : adj(heap.b.bi, N)[k] = ni
    /\ LET w == sw_grid(LiveGrid, ni)
       IN heap' = [heap EXCEPT !.objs = [@ EXCEPT ![heap.b.g] = w.g, ![heap.b.p] = w.p],
                               !.b.bi = w.bi,
                               !.op = [name |-> "sw", k |-> ni],
                               !.swaps = @ + 1]
    /\ o' = Append(o, dm(ni - heap.b.bi, N))
    /\ UNCHANGED snapFrame

\* A snap that returns the lists themselves (self.g, self.p, self.bi).
B_snap_no_copy ==
    /\ pc = "snap"
    /\ Len(heap.snaps) < MaxSnaps
    /\ heap' = [heap EXCEPT !.snaps = Append(@, [g |-> heap.b.g, p |-> heap.b.p,
                                                 bi |-> heap.b.bi]),
                            !.taken = Append(@, LiveGrid),
                            !.op = [name |-> "snap", k |-> Len(heap.snaps) + 1]]
    /\ UNCHANGED <<o, snapFrame>>

\* b.snap(): self.g[:] and self.p[:] are two new lists with the same
\* entries; the tuple refers to them.
B_snap ==
    /\ pc = "snap"
    /\ Len(heap.snaps) < MaxSnaps
    /\ LET n == Len(heap.objs)
       IN heap' = [heap EXCEPT !.objs = @ \o <<heap.objs[heap.b.g], heap.objs[heap.b.p]>>,
                               !.snaps = Append(@, [g |-> n + 1, p |-> n + 2,
                                                    bi |-> heap.b.bi]),
                               !.taken = Append(@, LiveGrid),
                               !.op = [name |-> "snap", k |-> Len(heap.snaps) + 1]]
    /\ UNCHANGED <<o, snapFrame>>

\* A restore that rebinds the slots to the snapshot's lists
\* (self.g = s[0]; self.p = s[1]).
B_restore_rebinds(k) ==
    /\ pc = "snap"
    /\ k \in 1..Len(heap.snaps)
    /\ heap' = [heap EXCEPT !.b = heap.snaps[k],
                            !.op = [name |-> "restore", k |-> k],
                            !.restored = TRUE]
    /\ UNCHANGED <<o, snapFrame>>

\* b.restore(s) with s the k-th snapshot: self.g[:] = s[0] and
\* self.p[:] = s[1] write the entries into the live lists, bi is rebound.
B_restore(k) ==
    /\ pc = "snap"
    /\ k \in 1..Len(heap.snaps)
    /\ heap' = [heap EXCEPT !.objs = [@ EXCEPT ![heap.b.g] = heap.objs[heap.snaps[k].g],
                                               ![heap.b.p] = heap.objs[heap.snaps[k].p]],
                            !.b.bi = heap.snaps[k].bi,
                            !.op = [name |-> "restore", k |-> k],
                            !.restored = TRUE]
    /\ UNCHANGED <<o, snapFrame>>

NextSnap ==
    \/ \E ni \in Cells(MaxN) : B_sw(ni)
    \/ B_snap
    \/ \E k \in 1..MaxSnaps : B_restore(k)

SpecSnap == InitSnap /\ [][NextSnap]_vars

\* ---------------------------------------------------------------- C34
\* No call alters a snapshot already taken: each has the value of g, p and
\* bi at the time it was taken.
SnapshotsIntact ==
    pc = "snap" =>
        \A k \in 1..Len(heap.snaps) : SnapshotValue(k) = heap.taken[k]

\* Right after restore(s) the live g, p and bi are those of the time s was
\* taken.
RestoreGivesBack ==
    (pc = "snap" /\ heap.op.name = "restore") => LiveGrid = heap.taken[heap.op.k]

\* C34: after any sequence of swaps following snap(), restore(snapshot) sets
\* g, p and bi back to exactly their values at snapshot time, and swaps made
\* on the live grid before or after the restore never alter a snapshot
\* already taken.
C34_SnapRestoreRoundTrip == SnapshotsIntact /\ RestoreGivesBack

\* A restore of the first snapshot after three swaps, one of them made
\* before a second snapshot: the live grid is the first snapshot's again
\* and differs from the second.
C34_Witness ==
    /\ pc = "snap"
    /\ heap.op = [name |-> "restore", k |-> 1]
    /\ heap.swaps >= 3
    /\ Len(heap.snaps) = 2
    /\ LiveGrid = heap.taken[1]
    /\ LiveGrid # heap.taken[2]

\* A swap made after a restore: the snapshot restored from no longer equals
\* the live grid and still has its value.
C34_SwapAfterRestore ==
    /\ pc = "snap"
    /\ heap.restored
    /\ heap.op.name = "sw"
    /\ Len(heap.snaps) >= 1
    /\ LiveGrid # heap.taken[1]
    /\ SnapshotValue(1) = heap.taken[1]


\* ---------------------------------- specification: GamePlay's two moves
\* GamePlay.from_board(board) followed by calls of move and move_tile with
\* any arguments. board is the game's Board, replay.moves the move counter
\* of its GameState, replay.idx the number of calls made; ret holds the
\* outcome of the last call and, as history, the call itself.
PlayBoards == {solved(2), solved(3)}

\* Keys handed to move: the four Directions and a key that is not in the
\* offsets table (an int such as 7).
PlayKeys == Direction \cup {"7"}
PlayArgs == (-MaxPlayArg)..MaxPlayArg

InitPlay ==
    /\ pc = "play"
    /\ board \in PlayBoards
    /\ board0 = board
    /\ origin = None
    /\ shuffles = 0
    /\ prev_pos = None
    /\ api = "play"
    /\ wb = None
    /\ fz = None
    /\ o = <<>>
    /\ trial = <<>>
    /\ stack = <<>>
    /\ pending = <<>>
    /\ pout = "o"
    /\ errs = {}
    /\ ret = [kind |-> "pending", call |-> [fn |-> "from_board", a |-> 0, b |-> 0]]
    /\ hintRet = NoRet
    /\ replay = NoReplay
    /\ visited = {}
    /\ heap = None

playFrame == <<pc, board0, origin, shuffles, prev_pos, api, wb, fz, o, trial, stack,
               pending, pout, errs, hintRet, visited, heap>>

\* game.move(d).
PlayMove(d) ==
    /\ pc = "play"
    /\ replay.idx < MaxPlayCalls
    /\ LET call == [fn |-> "move", a |-> d, b |-> 0]
       IN IF d \notin Direction
          THEN /\ ret' = [kind |-> "raise", exc |-> "KeyError", call |-> call]
               /\ board' = board
               /\ replay' = [replay EXCEPT !.idx = @ + 1]
          ELSE LET r == GamePlayMove([board |-> board, moves |-> replay.moves], d)
               IN /\ ret' = [kind |-> "value", value |-> r.ok, call |-> call]
                  /\ board' = r.game.board
                  /\ replay' = [replay EXCEPT !.idx = @ + 1, !.moves = r.game.moves]
    /\ UNCHANGED playFrame

\* game.move_tile(row, col): False unless |row - br| + |col - bc| = 1; then
\* _swap, whose list reads raise IndexError before anything is written when
\* an index is out of range, and take a negative index from the end.
PlayMoveTile(row, col) ==
    /\ pc = "play"
    /\ replay.idx < MaxPlayCalls
    /\ LET br == board.blank_pos[1]
           bc == board.blank_pos[2]
           call == [fn |-> "move_tile", a |-> row, b |-> col]
       IN IF Abs(row - br) + Abs(col - bc) # 1
          THEN /\ ret' = [kind |-> "value", value |-> FALSE, call |-> call]
               /\ board' = board
               /\ replay' = [replay EXCEPT !.idx = @ + 1]
          ELSE IF ~PyValid(row, board.size) \/ ~PyValid(col, board.size)
          THEN /\ ret' = [kind |-> "raise", exc |-> "IndexError", call |-> call]
               /\ board' = board
               /\ replay' = [replay EXCEPT !.idx = @ + 1]
          ELSE /\ ret' = [kind |-> "value", value |-> TRUE, call |-> call]
               /\ board' = swap(board, <<row, col>>)
               /\ replay' = [replay EXCEPT !.idx = @ + 1, !.moves = @ + 1]
    /\ UNCHANGED playFrame

NextPlay ==
    \/ \E d \in PlayKeys : PlayMove(d)
    \/ \E row, col \in PlayArgs : PlayMoveTile(row, col)

SpecPlay == InitPlay /\ [][NextPlay]_vars

\* ---------------------------------------------------------------- C35
\* The tiles are a permutation of 0..n*n-1.
TilesArePermutation(b) ==
    {b.tiles[r][c] : r, c \in 0..(b.size - 1)} = Cells(b.size)

\* The game's board is a permutation with blank_pos inside the grid and the
\* blank on it.
PlayBoardValid ==
    pc = "play" =>
        /\ TilesArePermutation(board)
        /\ InGrid(board.blank_pos[1], board.blank_pos[2], board.size)
        /\ board.tiles[board.blank_pos[1]][board.blank_pos[2]] = 0

\* A call of move_tile returns True only for a cell inside the grid that is
\* orthogonally adjacent to the blank; every other call leaves the board and
\* the move counter unchanged.
MoveTileJudges ==
    (pc = "play" /\ replay'.idx = replay.idx + 1 /\ ret'.call.fn = "move_tile") =>
        LET row == ret'.call.a
            col == ret'.call.b
            hit == /\ InGrid(row, col, board.size)
                   /\ Abs(row - board.blank_pos[1]) + Abs(col - board.blank_pos[2]) = 1
        IN /\ (ret'.kind = "value" /\ ret'.value) => hit
           /\ ~hit => (board' = board /\ replay'.moves = replay.moves)

\* C35: after any sequence of GamePlay.move and GamePlay.move_tile calls with
\* arbitrary arguments the board is still a permutation of 0..N*N-1 with
\* blank_pos inside the grid and tiles[blank_pos] = 0; move_tile returns True
\* only for an in-grid cell orthogonally adjacent to the blank, and
\* otherwise leaves board and move counter unchanged.
C35_PlayKeepsBoard == []PlayBoardValid /\ [][MoveTileJudges]_vars

\* What the two calls do keep: the tiles stay a permutation, blank_pos is a
\* pair of valid list indices and the cell it denotes (a negative index
\* counted from the end) holds 0; move keeps blank_pos inside the grid when
\* it is inside; a call that returns False or raises changes nothing; and a
\* call of move_tile with a cell inside the grid is judged as the claim says.
C35_PermutationKept ==
    /\ [](pc = "play" =>
            /\ TilesArePermutation(board)
            /\ PyValid(board.blank_pos[1], board.size)
            /\ PyValid(board.blank_pos[2], board.size)
            /\ board.tiles[PyIndex(board.blank_pos[1], board.size)]
                          [PyIndex(board.blank_pos[2], board.size)] = 0)
    /\ [][(pc = "play" /\ replay'.idx = replay.idx + 1) =>
            /\ (ret'.kind = "raise" \/ ~ret'.value) =>
                  (board' = board /\ replay'.moves = replay.moves)
            /\ (ret'.call.fn = "move"
                  /\ InGrid(board.blank_pos[1], board.blank_pos[2], board.size)) =>
                  InGrid(board'.blank_pos[1], board'.blank_pos[2], board.size)
            /\ (ret'.call.fn = "move_tile"
                  /\ InGrid(ret'.call.a, ret'.call.b, board.size)) =>
                  /\ ret'.kind = "value"
                  /\ ret'.value =
                        (Abs(ret'.call.a - board.blank_pos[1])
                           + Abs(ret'.call.b - board.blank_pos[2]) = 1)]_vars

\* move_tile has returned True for a cell outside the grid and blank_pos is
\* outside the grid.
C35_BlankOutside ==
    /\ pc = "play"
    /\ ret.kind = "value"
    /\ ret.value
    /\ ret.call.fn = "move_tile"
    /\ ~InGrid(ret.call.a, ret.call.b, board.size)
    /\ board.blank_pos = <<ret.call.a, ret.call.b>>

====
